---------------------------- MODULE Spec2Model ----------------------------
(***************************************************************************)
(* Resolution & normalization layer of nba-stats-agent.                    *)
(*                                                                         *)
(* The repository holds two implementations of the agent:                  *)
(*   "abbr": src/unnamed/part_000, alias table TEAM_ABBR_TO_ID, entrypoints*)
(*           overview, scores, team, leaders, player, matchup;             *)
(*   "ids":  src/src/index.ts, alias table TEAM_IDS, entrypoints overview, *)
(*           games, team, player, compare, report.                         *)
(* Text the resolver works on is a sequence of one-character strings.      *)
(***************************************************************************)
EXTENDS Integers, Sequences, FiniteSets, TLC

VARIABLES
    impl,       \* which implementation handles the request: "abbr" or "ids"
    team,       \* resolver specification: the identifier passed to resolveTeamId
    resolved,   \* resolver specification: what resolveTeamId did with it
    handler,    \* the entrypoint the request names
    input,      \* the input of the request, as the schema admits it
    payloads,   \* normalizer specification: the upstream payloads, by role
    clock,      \* the clock reading new Date() gave the handler
    outcome,    \* what the handler handed back: its output or the error it threw
    hpc,        \* where the handler is: "ready", "awaiting", "returned", "threw"
    ids,        \* what resolveTeamId returned for the identifiers of the input
    calls,      \* the fetchJSON calls of the request, in the order they were issued
    join,       \* the promise the handler awaits: Promise.all over the calls
    microtasks, \* the promise reaction jobs queued and not yet run
    settled,    \* history: the calls in the order their promises settled
    previous,   \* repeated normalization: what the earlier run handed back
    requests,   \* concurrent requests: the handler invocations of the server
    aliases     \* concurrent requests: the module-level alias table object

vars == <<impl, team, resolved, handler, input, payloads, clock, outcome,
          hpc, ids, calls, join, microtasks, settled, previous, requests, aliases>>

\* The variables of the specifications of repeated and concurrent requests.
serverVars == <<previous, requests, aliases>>

\* The variables of one request's handling.
requestVars == <<hpc, ids, calls, join, microtasks, settled>>

\* A resolveTeamId or a normalization that has not run yet; a variable of
\* another specification.
Pending == [kind |-> "pending"]
Idle == [kind |-> "idle"]

(***************************************************************************)
(* Bounds of the model.                                                    *)
(***************************************************************************)
\* Longest identifier enumerated exhaustively over Alphabet.
MaxLen == 4
\* Longest events list enumerated over the sample events.
MaxEvents == 2
\* Longest athletes list enumerated over the sample athletes.
MaxAthletes == 3
\* Longest articles list enumerated over the sample articles.
MaxArticles == 1

(***************************************************************************)
(* Characters and the String methods the resolvers use.                    *)
(***************************************************************************)
LowerCaseLetters ==
    <<"a","b","c","d","e","f","g","h","i","j","k","l","m",
      "n","o","p","q","r","s","t","u","v","w","x","y","z">>

UpperCaseLetters ==
    <<"A","B","C","D","E","F","G","H","I","J","K","L","M",
      "N","O","P","Q","R","S","T","U","V","W","X","Y","Z">>

DecimalDigits == <<"0","1","2","3","4","5","6","7","8","9">>

HexDigits ==
    <<"0","1","2","3","4","5","6","7","8","9","a","b","c","d","e","f">>

\* The white space String.prototype.trim and parseInt strip.
WhiteSpace == {" ", "\t", "\n", "\r"}

Range(seq) == {seq[i] : i \in 1..Len(seq)}

IndexOf(seq, c) == CHOOSE i \in 1..Len(seq) : seq[i] = c

toUpperChar(c) ==
    IF c \in Range(LowerCaseLetters)
    THEN UpperCaseLetters[IndexOf(LowerCaseLetters, c)]
    ELSE c

toLowerChar(c) ==
    IF c \in Range(UpperCaseLetters)
    THEN LowerCaseLetters[IndexOf(UpperCaseLetters, c)]
    ELSE c

toUpperCase(s) == [i \in 1..Len(s) |-> toUpperChar(s[i])]

toLowerCase(s) == [i \in 1..Len(s) |-> toLowerChar(s[i])]

RECURSIVE trimStart(_)
trimStart(s) ==
    IF s = <<>> \/ Head(s) \notin WhiteSpace THEN s ELSE trimStart(Tail(s))

RECURSIVE trimEnd(_)
trimEnd(s) ==
    IF s = <<>> \/ s[Len(s)] \notin WhiteSpace
    THEN s
    ELSE trimEnd(SubSeq(s, 1, Len(s) - 1))

trim(s) == trimEnd(trimStart(s))

\* /^\d+$/.test(s): one or more decimal digits and nothing else.
TestDigitsOnly(s) == s # <<>> /\ \A i \in 1..Len(s) : s[i] \in Range(DecimalDigits)

\* The digit values of radix R, case-insensitively.
DigitOf(c, R) ==
    LET lc == toLowerChar(c)
    IN  IF lc \in Range(HexDigits) /\ IndexOf(HexDigits, lc) - 1 < R
        THEN IndexOf(HexDigits, lc) - 1
        ELSE -1

RECURSIVE DigitPrefixLen(_, _)
DigitPrefixLen(s, R) ==
    IF s = <<>> \/ DigitOf(Head(s), R) < 0 THEN 0 ELSE 1 + DigitPrefixLen(Tail(s), R)

RECURSIVE DigitsValue(_, _)
DigitsValue(s, R) ==
    IF s = <<>> THEN 0
    ELSE DigitsValue(SubSeq(s, 1, Len(s) - 1), R) * R + DigitOf(s[Len(s)], R)

NaN == [nan |-> TRUE, n |-> 0]

\* parseInt(s) with no radix argument: leading white space, a sign, a 0x
\* prefix, then the longest prefix of digits; whatever follows is ignored.
parseInt(s) ==
    LET t    == trimStart(s)
        neg  == t # <<>> /\ Head(t) = "-"
        u    == IF t # <<>> /\ Head(t) \in {"+", "-"} THEN Tail(t) ELSE t
        hex  == Len(u) >= 2 /\ u[1] = "0" /\ u[2] \in {"x", "X"}
        R    == IF hex THEN 16 ELSE 10
        body == IF hex THEN SubSeq(u, 3, Len(u)) ELSE u
        k    == DigitPrefixLen(body, R)
        v    == DigitsValue(SubSeq(body, 1, k), R)
    IN  IF k = 0 THEN NaN ELSE [nan |-> FALSE, n |-> IF neg THEN 0 - v ELSE v]

isNaN(x) == x.nan

\* Number.prototype.toString of a non-negative integer.
RECURSIVE NatToString(_)
NatToString(n) ==
    IF n < 10 THEN <<DecimalDigits[n + 1]>>
    ELSE NatToString(n \div 10) \o <<DecimalDigits[(n % 10) + 1]>>

NumberToString(n) == IF n < 0 THEN <<"-">> \o NatToString(0 - n) ELSE NatToString(n)

(***************************************************************************)
(* JavaScript values, tagged with their type.                              *)
(***************************************************************************)
Undefined == [t |-> "undefined"]
Null == [t |-> "null"]
Text(cs) == [t |-> "text", cs |-> cs]
Num(n) == [t |-> "number", n |-> n]
Builtin(name) == [t |-> "builtin", name |-> name]

\* ToBoolean, as `if (x)` and `x || y` apply it.
Truthy(v) ==
    CASE v.t = "undefined" -> FALSE
      [] v.t = "null"      -> FALSE
      [] v.t = "text"      -> v.cs # <<>>
      [] v.t = "number"    -> v.n # 0
      [] v.t = "string"    -> v.s # ""
      [] v.t = "boolean"   -> v.b
      [] OTHER             -> TRUE

\* What `${v}` puts into a URL.
TemplateText(v) ==
    CASE v.t = "text"   -> v.cs
      [] v.t = "number" -> NumberToString(v.n)
      [] v.t = "builtin" /\ v.name = "Object" ->
            <<"f","u","n","c","t","i","o","n"," ","O","b","j","e","c","t","(",")">>
      [] OTHER          -> <<"[","o","b","j","e","c","t"," ","O","b","j","e","c","t","]">>

(***************************************************************************)
(* The alias tables.                                                       *)
(***************************************************************************)
TEAM_ABBR_TO_ID ==
       (<<"A","T","L">> :> <<"1">>)
    @@ (<<"B","O","S">> :> <<"2">>)
    @@ (<<"B","K","N">> :> <<"1","7">>)
    @@ (<<"C","H","A">> :> <<"3","0">>)
    @@ (<<"C","H","I">> :> <<"4">>)
    @@ (<<"C","L","E">> :> <<"5">>)
    @@ (<<"D","A","L">> :> <<"6">>)
    @@ (<<"D","E","N">> :> <<"7">>)
    @@ (<<"D","E","T">> :> <<"8">>)
    @@ (<<"G","S","W">> :> <<"9">>)
    @@ (<<"H","O","U">> :> <<"1","0">>)
    @@ (<<"I","N","D">> :> <<"1","1">>)
    @@ (<<"L","A","C">> :> <<"1","2">>)
    @@ (<<"L","A","L">> :> <<"1","3">>)
    @@ (<<"M","E","M">> :> <<"2","9">>)
    @@ (<<"M","I","A">> :> <<"1","4">>)
    @@ (<<"M","I","L">> :> <<"1","5">>)
    @@ (<<"M","I","N">> :> <<"1","6">>)
    @@ (<<"N","O","P">> :> <<"3">>)
    @@ (<<"N","Y","K">> :> <<"1","8">>)
    @@ (<<"O","K","C">> :> <<"2","5">>)
    @@ (<<"O","R","L">> :> <<"1","9">>)
    @@ (<<"P","H","I">> :> <<"2","0">>)
    @@ (<<"P","H","X">> :> <<"2","1">>)
    @@ (<<"P","O","R">> :> <<"2","2">>)
    @@ (<<"S","A","C">> :> <<"2","3">>)
    @@ (<<"S","A","S">> :> <<"2","4">>)
    @@ (<<"T","O","R">> :> <<"2","8">>)
    @@ (<<"U","T","A">> :> <<"2","6">>)
    @@ (<<"W","A","S">> :> <<"2","7">>)

TEAM_IDS ==
       (<<"h","a","w","k","s">> :> 1)
    @@ (<<"a","t","l">> :> 1)
    @@ (<<"a","t","l","a","n","t","a">> :> 1)
    @@ (<<"c","e","l","t","i","c","s">> :> 2)
    @@ (<<"b","o","s">> :> 2)
    @@ (<<"b","o","s","t","o","n">> :> 2)
    @@ (<<"n","e","t","s">> :> 17)
    @@ (<<"b","k","n">> :> 17)
    @@ (<<"b","r","o","o","k","l","y","n">> :> 17)
    @@ (<<"h","o","r","n","e","t","s">> :> 30)
    @@ (<<"c","h","a">> :> 30)
    @@ (<<"c","h","a","r","l","o","t","t","e">> :> 30)
    @@ (<<"b","u","l","l","s">> :> 4)
    @@ (<<"c","h","i">> :> 4)
    @@ (<<"c","h","i","c","a","g","o">> :> 4)
    @@ (<<"c","a","v","a","l","i","e","r","s">> :> 5)
    @@ (<<"c","l","e">> :> 5)
    @@ (<<"c","l","e","v","e","l","a","n","d">> :> 5)
    @@ (<<"c","a","v","s">> :> 5)
    @@ (<<"m","a","v","e","r","i","c","k","s">> :> 6)
    @@ (<<"d","a","l">> :> 6)
    @@ (<<"d","a","l","l","a","s">> :> 6)
    @@ (<<"m","a","v","s">> :> 6)
    @@ (<<"n","u","g","g","e","t","s">> :> 7)
    @@ (<<"d","e","n">> :> 7)
    @@ (<<"d","e","n","v","e","r">> :> 7)
    @@ (<<"p","i","s","t","o","n","s">> :> 8)
    @@ (<<"d","e","t">> :> 8)
    @@ (<<"d","e","t","r","o","i","t">> :> 8)
    @@ (<<"w","a","r","r","i","o","r","s">> :> 9)
    @@ (<<"g","s","w">> :> 9)
    @@ (<<"g","o","l","d","e","n"," ","s","t","a","t","e">> :> 9)
    @@ (<<"r","o","c","k","e","t","s">> :> 10)
    @@ (<<"h","o","u">> :> 10)
    @@ (<<"h","o","u","s","t","o","n">> :> 10)
    @@ (<<"p","a","c","e","r","s">> :> 11)
    @@ (<<"i","n","d">> :> 11)
    @@ (<<"i","n","d","i","a","n","a">> :> 11)
    @@ (<<"c","l","i","p","p","e","r","s">> :> 12)
    @@ (<<"l","a","c">> :> 12)
    @@ (<<"l","a"," ","c","l","i","p","p","e","r","s">> :> 12)
    @@ (<<"l","a","k","e","r","s">> :> 13)
    @@ (<<"l","a","l">> :> 13)
    @@ (<<"l","a"," ","l","a","k","e","r","s">> :> 13)
    @@ (<<"l","o","s"," ","a","n","g","e","l","e","s"," ","l","a","k","e","r","s">> :> 13)
    @@ (<<"g","r","i","z","z","l","i","e","s">> :> 29)
    @@ (<<"m","e","m">> :> 29)
    @@ (<<"m","e","m","p","h","i","s">> :> 29)
    @@ (<<"h","e","a","t">> :> 14)
    @@ (<<"m","i","a">> :> 14)
    @@ (<<"m","i","a","m","i">> :> 14)
    @@ (<<"b","u","c","k","s">> :> 15)
    @@ (<<"m","i","l">> :> 15)
    @@ (<<"m","i","l","w","a","u","k","e","e">> :> 15)
    @@ (<<"t","i","m","b","e","r","w","o","l","v","e","s">> :> 16)
    @@ (<<"m","i","n">> :> 16)
    @@ (<<"m","i","n","n","e","s","o","t","a">> :> 16)
    @@ (<<"w","o","l","v","e","s">> :> 16)
    @@ (<<"p","e","l","i","c","a","n","s">> :> 3)
    @@ (<<"n","o","p">> :> 3)
    @@ (<<"n","e","w"," ","o","r","l","e","a","n","s">> :> 3)
    @@ (<<"k","n","i","c","k","s">> :> 18)
    @@ (<<"n","y","k">> :> 18)
    @@ (<<"n","e","w"," ","y","o","r","k">> :> 18)
    @@ (<<"t","h","u","n","d","e","r">> :> 25)
    @@ (<<"o","k","c">> :> 25)
    @@ (<<"o","k","l","a","h","o","m","a"," ","c","i","t","y">> :> 25)
    @@ (<<"m","a","g","i","c">> :> 19)
    @@ (<<"o","r","l">> :> 19)
    @@ (<<"o","r","l","a","n","d","o">> :> 19)
    @@ (<<"7","6","e","r","s">> :> 20)
    @@ (<<"p","h","i">> :> 20)
    @@ (<<"p","h","i","l","a","d","e","l","p","h","i","a">> :> 20)
    @@ (<<"s","i","x","e","r","s">> :> 20)
    @@ (<<"s","u","n","s">> :> 21)
    @@ (<<"p","h","x">> :> 21)
    @@ (<<"p","h","o","e","n","i","x">> :> 21)
    @@ (<<"t","r","a","i","l"," ","b","l","a","z","e","r","s">> :> 22)
    @@ (<<"p","o","r">> :> 22)
    @@ (<<"p","o","r","t","l","a","n","d">> :> 22)
    @@ (<<"b","l","a","z","e","r","s">> :> 22)
    @@ (<<"k","i","n","g","s">> :> 23)
    @@ (<<"s","a","c">> :> 23)
    @@ (<<"s","a","c","r","a","m","e","n","t","o">> :> 23)
    @@ (<<"s","p","u","r","s">> :> 24)
    @@ (<<"s","a","s">> :> 24)
    @@ (<<"s","a","n"," ","a","n","t","o","n","i","o">> :> 24)
    @@ (<<"r","a","p","t","o","r","s">> :> 28)
    @@ (<<"t","o","r">> :> 28)
    @@ (<<"t","o","r","o","n","t","o">> :> 28)
    @@ (<<"j","a","z","z">> :> 26)
    @@ (<<"u","t","a">> :> 26)
    @@ (<<"u","t","a","h">> :> 26)
    @@ (<<"w","i","z","a","r","d","s">> :> 27)
    @@ (<<"w","a","s">> :> 27)
    @@ (<<"w","a","s","h","i","n","g","t","o","n">> :> 27)

\* Properties every object literal inherits from Object.prototype: a lookup
\* by a key that is not the table's own finds these.
ObjectPrototype ==
       (<<"c","o","n","s","t","r","u","c","t","o","r">> :> Builtin("Object"))
    @@ (<<"_","_","p","r","o","t","o","_","_">> :> Builtin("Object.prototype"))
    @@ (<<"t","o","S","t","r","i","n","g">> :> Builtin("toString"))
    @@ (<<"v","a","l","u","e","O","f">> :> Builtin("valueOf"))
    @@ (<<"h","a","s","O","w","n","P","r","o","p","e","r","t","y">> :> Builtin("hasOwnProperty"))
    @@ (<<"i","s","P","r","o","t","o","t","y","p","e","O","f">> :> Builtin("isPrototypeOf"))
    @@ (<<"t","o","L","o","c","a","l","e","S","t","r","i","n","g">> :> Builtin("toLocaleString"))

\* table[key] of an object literal whose own values are wrapped by `wrap`.
Lookup(table, key, wrap(_)) ==
    IF key \in DOMAIN table THEN wrap(table[key])
    ELSE IF key \in DOMAIN ObjectPrototype THEN ObjectPrototype[key]
    ELSE Undefined

(***************************************************************************)
(* resolveTeamId, once per implementation.                                 *)
(***************************************************************************)
Return(v) == [kind |-> "return", val |-> v]
UnknownTeam(t) == [kind |-> "throw", error |-> "Unknown team", team |-> t]

\* src/unnamed/part_000: upper-case, look up, else digits-only passthrough.
\* table is the object the module-level TEAM_ABBR_TO_ID is bound to.
resolveTeamIdAbbrIn(table, t) ==
    LET upper == toUpperCase(t)
        hit   == Lookup(table, upper, Text)
    IN  IF Truthy(hit) THEN Return(hit)
        ELSE IF TestDigitsOnly(t) THEN Return(Text(t))
        ELSE UnknownTeam(t)

resolveTeamIdAbbr(t) == resolveTeamIdAbbrIn(TEAM_ABBR_TO_ID, t)

\* src/src/index.ts: lower-case and trim, look up, else parseInt within 1..30.
\* table is the object the module-level TEAM_IDS is bound to.
resolveTeamIdIdsIn(table, t) ==
    LET normalized == trim(toLowerCase(t))
        hit        == Lookup(table, normalized, Num)
        numId      == parseInt(t)
    IN  IF Truthy(hit) THEN Return(hit)
        ELSE IF ~isNaN(numId) /\ numId.n >= 1 /\ numId.n <= 30 THEN Return(Num(numId.n))
        ELSE UnknownTeam(t)

resolveTeamIdIds(t) == resolveTeamIdIdsIn(TEAM_IDS, t)

resolveTeamId(i, t) == IF i = "abbr" THEN resolveTeamIdAbbr(t) ELSE resolveTeamIdIds(t)

resolveTeamIdIn(table, i, t) ==
    IF i = "abbr" THEN resolveTeamIdAbbrIn(table, t) ELSE resolveTeamIdIdsIn(table, t)

Impls == {"abbr", "ids"}

(***************************************************************************)
(* Upstream payloads: JSON trees read with ., ?. and the Array methods.    *)
(* A field that is missing from an object is not in its domain.            *)
(***************************************************************************)
Str(s) == [t |-> "string", s |-> s]
Bool(b) == [t |-> "boolean", b |-> b]
Obj(f) == [t |-> "object", o |-> f]
Arr(q) == [t |-> "array", a |-> q]
EmptyObject == Obj(<<>>)

Nullish(v) == v.t \in {"undefined", "null"}

\* v.k for a v that is not nullish.
Prop(v, k) == IF v.t = "object" /\ k \in DOMAIN v.o THEN v.o[k] ELSE Undefined

\* v?.k
Opt(v, k) == IF Nullish(v) THEN Undefined ELSE Prop(v, k)

\* v?.[0]
OptFirst(v) ==
    IF Nullish(v) THEN Undefined
    ELSE IF v.t = "array" /\ Len(v.a) >= 1 THEN v.a[1]
    ELSE Undefined

\* a || b
Or(a, b) == IF Truthy(a) THEN a ELSE b

\* v?.map((e, i) => F(e, i)); i is 0-based.
OptMap(v, F(_, _)) ==
    IF Nullish(v) THEN Undefined
    ELSE Arr([i \in 1..Len(v.a) |-> F(v.a[i], i - 1)])

\* v?.find(e => P(e))
OptFind(v, P(_)) ==
    IF Nullish(v) THEN Undefined
    ELSE IF \E i \in 1..Len(v.a) : P(v.a[i])
         THEN v.a[CHOOSE i \in 1..Len(v.a) : P(v.a[i]) /\ \A j \in 1..(i - 1) : ~P(v.a[j])]
         ELSE Undefined

\* v?.filter(e => P(e))
OptFilter(v, P(_)) == IF Nullish(v) THEN Undefined ELSE Arr(SelectSeq(v.a, P))

\* v?.slice(0, n)
OptSlice(v, n) ==
    IF Nullish(v) THEN Undefined
    ELSE Arr(SubSeq(v.a, 1, IF Len(v.a) < n THEN Len(v.a) ELSE n))

\* v?.length
OptLength(v) == IF Nullish(v) THEN Undefined ELSE Num(Len(v.a))

\* a === b for the primitives the handlers compare.
StrictEquals(a, b) == a = b

\* new Date().toISOString() and its date part, for a clock reading.
Instants == [day : {1, 2}, tick : {0, 1}]
IsoString(at) == [t |-> "iso", day |-> at.day, tick |-> at.tick]
IsoDate(at) == [t |-> "isodate", day |-> at.day]

\* What a handler hands back: its output, or the error it throws.
Output(o) == [kind |-> "output", output |-> o]
Threw(e) == [kind |-> "error", error |-> e]
TypeError == [type |-> "TypeError"]

(***************************************************************************)
(* Normalizers of src/unnamed/part_000 ("abbr").                           *)
(***************************************************************************)
\* overview: [scoreboard, news]
AbbrOverview(scoreboard, news, at) ==
    LET games == Or(OptMap(Prop(scoreboard, "events"), LAMBDA e, i :
                        Obj([matchup |-> Prop(e, "shortName"),
                             status  |-> Opt(Opt(Prop(e, "status"), "type"), "shortDetail"),
                             venue   |-> Opt(Opt(OptFirst(Prop(e, "competitions")), "venue"), "fullName")])),
                    Arr(<<>>))
        headlines == Or(OptMap(Prop(news, "articles"), LAMBDA a, i : Prop(a, "headline")),
                        Arr(<<>>))
    IN  Output(Obj([date       |-> Or(Opt(Prop(scoreboard, "day"), "date"), IsoDate(at)),
                    gamesCount |-> OptLength(games),
                    games      |-> OptSlice(games, 5),
                    latestNews |-> headlines,
                    fetchedAt  |-> IsoString(at),
                    dataSource |-> Str("ESPN NBA API (live)")]))

\* Faulty variant: the sides are taken by position in the competitors list,
\* home first, not by their homeAway.
AbbrScoresGameByPosition(e) ==
    LET comp == OptFirst(Prop(e, "competitions"))
        home == OptFirst(Opt(comp, "competitors"))
        second == IF Nullish(Opt(comp, "competitors")) \/ Len(Opt(comp, "competitors").a) < 2
                  THEN Undefined ELSE Opt(comp, "competitors").a[2]
    IN  Obj([id          |-> Prop(e, "id"),
             matchup     |-> Prop(e, "shortName"),
             status      |-> Opt(Opt(Prop(e, "status"), "type"), "shortDetail"),
             statusState |-> Opt(Opt(Prop(e, "status"), "type"), "state"),
             homeTeam    |-> Opt(Opt(home, "team"), "abbreviation"),
             homeScore   |-> Opt(home, "score"),
             awayTeam    |-> Opt(Opt(second, "team"), "abbreviation"),
             awayScore   |-> Opt(second, "score"),
             venue       |-> Opt(Opt(comp, "venue"), "fullName"),
             broadcast   |-> OptFirst(Opt(OptFirst(Opt(comp, "broadcasts")), "names"))])

\* One game of the scores list.
AbbrScoresGame(e) ==
    LET comp == OptFirst(Prop(e, "competitions"))
        home == OptFind(Opt(comp, "competitors"),
                        LAMBDA c : StrictEquals(Prop(c, "homeAway"), Str("home")))
        away == OptFind(Opt(comp, "competitors"),
                        LAMBDA c : StrictEquals(Prop(c, "homeAway"), Str("away")))
    IN  Obj([id          |-> Prop(e, "id"),
             matchup     |-> Prop(e, "shortName"),
             status      |-> Opt(Opt(Prop(e, "status"), "type"), "shortDetail"),
             statusState |-> Opt(Opt(Prop(e, "status"), "type"), "state"),
             homeTeam    |-> Opt(Opt(home, "team"), "abbreviation"),
             homeScore   |-> Opt(home, "score"),
             awayTeam    |-> Opt(Opt(away, "team"), "abbreviation"),
             awayScore   |-> Opt(away, "score"),
             venue       |-> Opt(Opt(comp, "venue"), "fullName"),
             broadcast   |-> OptFirst(Opt(OptFirst(Opt(comp, "broadcasts")), "names"))])

\* scores: [scoreboard]
AbbrScores(data, at) ==
    LET games == Or(OptMap(Prop(data, "events"), LAMBDA e, i : AbbrScoresGame(e)), Arr(<<>>))
    IN  Output(Obj([date      |-> Opt(Prop(data, "day"), "date"),
                    games     |-> games,
                    fetchedAt |-> IsoString(at)]))

\* team: [roster, schedule]
AbbrTeam(teamId, roster, schedule, at) ==
    LET teamInfo == Or(Prop(roster, "team"), EmptyObject)
        players == Or(OptMap(Prop(roster, "athletes"), LAMBDA p, i :
                        Obj([name     |-> Prop(p, "displayName"),
                             jersey   |-> Prop(p, "jersey"),
                             position |-> Opt(Prop(p, "position"), "abbreviation"),
                             height   |-> Prop(p, "displayHeight"),
                             weight   |-> Prop(p, "displayWeight")])),
                      Arr(<<>>))
        recentGames == Or(OptMap(OptSlice(Prop(schedule, "events"), 5), LAMBDA e, i :
                        Obj([matchup |-> Prop(e, "shortName"),
                             date    |-> Prop(e, "date"),
                             status  |-> Opt(Opt(Prop(e, "status"), "type"), "shortDetail")])),
                          Arr(<<>>))
    IN  Output(Obj([team |-> Obj([id           |-> teamId,
                                  name         |-> Prop(teamInfo, "displayName"),
                                  abbreviation |-> Prop(teamInfo, "abbreviation"),
                                  location     |-> Prop(teamInfo, "location"),
                                  color        |-> Prop(teamInfo, "color"),
                                  logo         |-> Prop(teamInfo, "logo")]),
                    rosterSize  |-> OptLength(players),
                    roster      |-> players,
                    recentGames |-> recentGames,
                    fetchedAt   |-> IsoString(at)]))

\* Faulty variant: the last entry with the name is taken, as a reduce into a
\* map keyed by name would.
StatValueLast(stats, name) ==
    LET hits == {i \in 1..Len(stats.a) : Prop(stats.a[i], "name") = Str(name)}
    IN  IF hits = {} THEN Undefined
        ELSE Prop(stats.a[CHOOSE i \in hits : \A k \in hits : k <= i], "value")

\* stats.find(s => s.name === name)?.value
StatValue(stats, name) ==
    Opt(OptFind(stats, LAMBDA s : StrictEquals(Prop(s, "name"), Str(name))), "value")

\* Faulty variant: the rank is the 0-based index itself.
AbbrLeaderZeroBased(a, i) ==
    LET stats == Or(Opt(OptFirst(Prop(a, "categories")), "stats"), Arr(<<>>))
    IN  Obj([rank        |-> Num(i),
             name        |-> Opt(Prop(a, "athlete"), "displayName"),
             team        |-> Opt(Prop(a, "athlete"), "teamShortName"),
             position    |-> Opt(Opt(Prop(a, "athlete"), "position"), "abbreviation"),
             gamesPlayed |-> StatValue(stats, "gamesPlayed"),
             points      |-> StatValue(stats, "avgPoints"),
             rebounds    |-> StatValue(stats, "avgRebounds"),
             assists     |-> StatValue(stats, "avgAssists"),
             steals      |-> StatValue(stats, "avgSteals"),
             blocks      |-> StatValue(stats, "avgBlocks")])

\* One entry of the leaders list, built from the athlete at 0-based index i.
AbbrLeader(a, i) ==
    LET stats == Or(Opt(OptFirst(Prop(a, "categories")), "stats"), Arr(<<>>))
    IN  Obj([rank        |-> Num(i + 1),
             name        |-> Opt(Prop(a, "athlete"), "displayName"),
             team        |-> Opt(Prop(a, "athlete"), "teamShortName"),
             position    |-> Opt(Opt(Prop(a, "athlete"), "position"), "abbreviation"),
             gamesPlayed |-> StatValue(stats, "gamesPlayed"),
             points      |-> StatValue(stats, "avgPoints"),
             rebounds    |-> StatValue(stats, "avgRebounds"),
             assists     |-> StatValue(stats, "avgAssists"),
             steals      |-> StatValue(stats, "avgSteals"),
             blocks      |-> StatValue(stats, "avgBlocks")])

\* leaders: [byathlete statistics]
AbbrLeaders(category, data, at) ==
    LET leaders == Or(OptMap(Prop(data, "athletes"), AbbrLeader), Arr(<<>>))
    IN  Output(Obj([category  |-> category,
                    season    |-> Str("2025-26"),
                    leaders   |-> leaders,
                    fetchedAt |-> IsoString(at)]))

\* The property key a value is used as: acc[s.name].
KeyOf(v) == IF v.t = "string" THEN v.s ELSE "undefined"

\* stats.reduce((acc, s) => { acc[s[k]] = s[val]; return acc }, {}): one
\* property per key, holding the value of the last entry with that key.
KeyedBy(stats, k, val) ==
    LET keys == {KeyOf(Prop(stats.a[i], k)) : i \in 1..Len(stats.a)}
        last(key) == CHOOSE i \in 1..Len(stats.a) :
                        /\ KeyOf(Prop(stats.a[i], k)) = key
                        /\ \A j \in (i + 1)..Len(stats.a) : KeyOf(Prop(stats.a[j], k)) # key
    IN  Obj([key \in keys |-> Prop(stats.a[last(key)], val)])

\* `${draft.year} Round ${draft.round} Pick ${draft.selection}`
DraftText(draft) ==
    [t |-> "template", year |-> Prop(draft, "year"), round |-> Prop(draft, "round"),
     selection |-> Prop(draft, "selection")]

\* player: [athlete]
AbbrPlayer(data, at) ==
    LET athlete == Or(Prop(data, "athlete"), EmptyObject)
        stats == Or(Opt(OptFirst(Opt(Prop(athlete, "statsSummary"), "statistics")), "stats"),
                    Arr(<<>>))
        career == Or(Opt(OptFirst(Opt(OptFirst(Opt(Prop(athlete, "career"), "stats")),
                                      "categories")), "stats"),
                     Arr(<<>>))
    IN  Output(Obj([player |-> Obj([id         |-> Prop(athlete, "id"),
                                    name       |-> Prop(athlete, "displayName"),
                                    firstName  |-> Prop(athlete, "firstName"),
                                    lastName   |-> Prop(athlete, "lastName"),
                                    jersey     |-> Prop(athlete, "jersey"),
                                    position   |-> Opt(Prop(athlete, "position"), "name"),
                                    team       |-> Opt(Prop(athlete, "team"), "displayName"),
                                    teamId     |-> Opt(Prop(athlete, "team"), "id"),
                                    height     |-> Prop(athlete, "displayHeight"),
                                    weight     |-> Prop(athlete, "displayWeight"),
                                    age        |-> Prop(athlete, "age"),
                                    birthDate  |-> Prop(athlete, "dateOfBirth"),
                                    birthPlace |-> Opt(Prop(athlete, "birthPlace"), "city"),
                                    college    |-> Opt(Prop(athlete, "college"), "name"),
                                    draft      |-> IF Truthy(Prop(athlete, "draft"))
                                                   THEN DraftText(Prop(athlete, "draft"))
                                                   ELSE Null,
                                    experience |-> Opt(Prop(athlete, "experience"), "years"),
                                    headshot   |-> Opt(Prop(athlete, "headshot"), "href")]),
                    seasonStats |-> KeyedBy(stats, "name", "value"),
                    careerStats |-> KeyedBy(career, "name", "value"),
                    fetchedAt   |-> IsoString(at)]))

\* matchup: extractTeamInfo(roster)
extractTeamInfo(roster) ==
    [name         |-> Opt(Prop(roster, "team"), "displayName"),
     abbreviation |-> Opt(Prop(roster, "team"), "abbreviation"),
     rosterSize   |-> Or(OptLength(Prop(roster, "athletes")), Num(0)),
     starters     |-> Or(OptMap(OptSlice(Prop(roster, "athletes"), 5), LAMBDA p, i :
                            Obj([name     |-> Prop(p, "displayName"),
                                 position |-> Opt(Prop(p, "position"), "abbreviation"),
                                 jersey   |-> Prop(p, "jersey")])),
                         Arr(<<>>))]

\* e.status?.type?.completed
Completed(e) == Truthy(Opt(Opt(Prop(e, "status"), "type"), "completed"))

\* e.competitions?.[0]?.competitors?.find(c => c.winner)
SomeWinner(e) ==
    Truthy(OptFind(Opt(OptFirst(Prop(e, "competitions")), "competitors"),
                   LAMBDA c : Truthy(Prop(c, "winner"))))

\* Faulty variant: every event of the schedule is counted as played.
extractRecordCountsEveryEvent(schedule) ==
    LET wins == Or(OptLength(OptFilter(Prop(schedule, "events"),
                                       LAMBDA e : Completed(e) /\ SomeWinner(e))),
                   Num(0))
        completed == Or(OptLength(Prop(schedule, "events")), Num(0))
    IN  Obj([wins |-> wins, losses |-> Num(completed.n - wins.n), gamesPlayed |-> completed])

\* matchup: extractRecord(schedule)
extractRecord(schedule) ==
    LET wins == Or(OptLength(OptFilter(Prop(schedule, "events"),
                                       LAMBDA e : Completed(e) /\ SomeWinner(e))),
                   Num(0))
        completed == Or(OptLength(OptFilter(Prop(schedule, "events"), Completed)), Num(0))
    IN  Obj([wins |-> wins, losses |-> Num(completed.n - wins.n), gamesPlayed |-> completed])

\* matchup: [homeRoster, awayRoster, homeSchedule, awaySchedule]
AbbrMatchup(homeTeam, awayTeam, homeRoster, awayRoster, homeSchedule, awaySchedule, at) ==
    Output(Obj([matchup  |-> Text(toUpperCase(awayTeam) \o <<" ", "@", " ">> \o toUpperCase(homeTeam)),
                homeTeam |-> Obj(extractTeamInfo(homeRoster) @@ [record |-> extractRecord(homeSchedule)]),
                awayTeam |-> Obj(extractTeamInfo(awayRoster) @@ [record |-> extractRecord(awaySchedule)]),
                analysis |-> Obj([note |-> Str("For betting odds and advanced analytics, consider additional data sources"),
                                  generatedAt |-> IsoString(at)]),
                fetchedAt |-> IsoString(at)]))

(***************************************************************************)
(* Normalizers of src/src/index.ts ("ids").                                *)
(***************************************************************************)
\* overview: [scoreboard]
IdsOverview(data, at) ==
    LET games == Or(OptMap(Prop(data, "events"), LAMBDA e, i :
                        Obj([name   |-> Prop(e, "shortName"),
                             status |-> Opt(Opt(Prop(e, "status"), "type"), "description"),
                             date   |-> Prop(e, "date")])),
                    Arr(<<>>))
    IN  Output(Obj([league     |-> Str("NBA"),
                    season     |-> Prop(data, "season"),
                    gamesCount |-> OptLength(games),
                    games      |-> OptSlice(games, 5),
                    fetchedAt  |-> IsoString(at),
                    dataSource |-> Str("ESPN API (live)")]))

\* One side of a game of the games list.
IdsGamesSide(c) ==
    Obj([name         |-> Opt(Opt(c, "team"), "displayName"),
         abbreviation |-> Opt(Opt(c, "team"), "abbreviation"),
         score        |-> Opt(c, "score"),
         winner       |-> Opt(c, "winner")])

IdsGamesGame(e) ==
    LET comp == OptFirst(Prop(e, "competitions"))
        homeTeam == OptFind(Opt(comp, "competitors"),
                            LAMBDA c : StrictEquals(Prop(c, "homeAway"), Str("home")))
        awayTeam == OptFind(Opt(comp, "competitors"),
                            LAMBDA c : StrictEquals(Prop(c, "homeAway"), Str("away")))
    IN  Obj([id       |-> Prop(e, "id"),
             name     |-> Prop(e, "shortName"),
             date     |-> Prop(e, "date"),
             venue    |-> Opt(Opt(comp, "venue"), "fullName"),
             status   |-> Opt(Opt(Prop(e, "status"), "type"), "description"),
             period   |-> Opt(Prop(e, "status"), "period"),
             clock    |-> Opt(Prop(e, "status"), "displayClock"),
             homeTeam |-> IdsGamesSide(homeTeam),
             awayTeam |-> IdsGamesSide(awayTeam)])

\* games: [scoreboard]
IdsGames(data, at) ==
    LET games == Or(OptMap(Prop(data, "events"), LAMBDA e, i : IdsGamesGame(e)), Arr(<<>>))
    IN  Output(Obj([date       |-> Opt(Prop(data, "day"), "date"),
                    gamesCount |-> OptLength(games),
                    games      |-> games,
                    fetchedAt  |-> IsoString(at)]))

\* team: [team, roster]; team.id is read without ?.
IdsTeam(teamData, rosterData, at) ==
    LET tm == Prop(teamData, "team")
        roster == Or(OptMap(Prop(rosterData, "athletes"), LAMBDA a, i :
                        Obj([id       |-> Prop(a, "id"),
                             name     |-> Prop(a, "displayName"),
                             jersey   |-> Prop(a, "jersey"),
                             position |-> Opt(Prop(a, "position"), "abbreviation"),
                             age      |-> Prop(a, "age")])),
                     Arr(<<>>))
    IN  IF Nullish(tm) THEN Threw(TypeError)
        ELSE Output(Obj([team |-> Obj([id           |-> Prop(tm, "id"),
                                       name         |-> Prop(tm, "displayName"),
                                       abbreviation |-> Prop(tm, "abbreviation"),
                                       location     |-> Prop(tm, "location"),
                                       color        |-> Prop(tm, "color"),
                                       logo         |-> Opt(OptFirst(Prop(tm, "logos")), "href")]),
                         rosterCount |-> OptLength(roster),
                         roster      |-> OptSlice(roster, 15),
                         fetchedAt   |-> IsoString(at)]))

\* Object.values(o): the values in key order.
ObjectValues(v) == Arr([i \in 1..Len(v.o) |-> v.o[i]])

\* player: [athlete overview]
IdsPlayer(playerId, data, at) ==
    LET stats == Or(Opt(OptFirst(Opt(Opt(Prop(data, "statistics"), "splits"), "categories")),
                        "stats"),
                    Arr(<<>>))
        events == Or(Opt(Prop(data, "gameLog"), "events"), EmptyObject)
        recentGames == OptMap(OptSlice(ObjectValues(events), 5), LAMBDA e, i :
                        Obj([date     |-> Prop(e, "gameDate"),
                             opponent |-> Opt(Prop(e, "opponent"), "displayName"),
                             result   |-> Prop(e, "gameResult"),
                             stats    |-> Prop(e, "stats")]))
    IN  Output(Obj([playerId    |-> playerId,
                    name        |-> Opt(Prop(data, "news"), "header"),
                    stats       |-> KeyedBy(stats, "abbreviation", "displayValue"),
                    recentGames |-> recentGames,
                    fantasy     |-> Prop(data, "fantasy"),
                    fetchedAt   |-> IsoString(at)]))

\* compare: extractTeam(data, roster); data.team.displayName is read without ?.
extractTeam(data, roster) ==
    Obj([name         |-> Prop(Prop(data, "team"), "displayName"),
         abbreviation |-> Prop(Prop(data, "team"), "abbreviation"),
         color        |-> Prop(Prop(data, "team"), "color"),
         rosterSize   |-> Or(OptLength(Prop(roster, "athletes")), Num(0)),
         keyPlayers   |-> Or(OptMap(OptSlice(Prop(roster, "athletes"), 5), LAMBDA a, i :
                                Obj([name     |-> Prop(a, "displayName"),
                                     position |-> Opt(Prop(a, "position"), "abbreviation")])),
                             Arr(<<>>))])

\* compare: [team1, team2, roster1, roster2]
IdsCompare(team1Data, team2Data, roster1, roster2, at) ==
    IF Nullish(Prop(team1Data, "team")) \/ Nullish(Prop(team2Data, "team"))
    THEN Threw(TypeError)
    ELSE Output(Obj([team1     |-> extractTeam(team1Data, roster1),
                     team2     |-> extractTeam(team2Data, roster2),
                     fetchedAt |-> IsoString(at)]))

\* One side of a game of the report.
IdsReportSide(c) ==
    Obj([name         |-> Opt(Opt(c, "team"), "displayName"),
         abbreviation |-> Opt(Opt(c, "team"), "abbreviation"),
         score        |-> Opt(c, "score"),
         record       |-> Opt(OptFirst(Opt(c, "records")), "summary")])

IdsReportGame(e) ==
    LET comp == OptFirst(Prop(e, "competitions"))
        homeTeam == OptFind(Opt(comp, "competitors"),
                            LAMBDA c : StrictEquals(Prop(c, "homeAway"), Str("home")))
        awayTeam == OptFind(Opt(comp, "competitors"),
                            LAMBDA c : StrictEquals(Prop(c, "homeAway"), Str("away")))
    IN  Obj([id        |-> Prop(e, "id"),
             name      |-> Prop(e, "name"),
             shortName |-> Prop(e, "shortName"),
             date      |-> Prop(e, "date"),
             venue     |-> Opt(Opt(comp, "venue"), "fullName"),
             status    |-> Opt(Opt(Prop(e, "status"), "type"), "description"),
             period    |-> Opt(Prop(e, "status"), "period"),
             clock     |-> Opt(Prop(e, "status"), "displayClock"),
             homeTeam  |-> IdsReportSide(homeTeam),
             awayTeam  |-> IdsReportSide(awayTeam)])

\* report: [scoreboard, news]
IdsReport(scoreboard, news, at) ==
    LET games == Or(OptMap(Prop(scoreboard, "events"), LAMBDA e, i : IdsReportGame(e)),
                    Arr(<<>>))
        headlines == Or(OptMap(Prop(news, "articles"), LAMBDA a, i :
                            Obj([headline    |-> Prop(a, "headline"),
                                 description |-> Prop(a, "description"),
                                 published   |-> Prop(a, "published"),
                                 link        |-> Opt(Opt(Prop(a, "links"), "web"), "href")])),
                        Arr(<<>>))
    IN  Output(Obj([date       |-> Opt(Prop(scoreboard, "day"), "date"),
                    season     |-> Prop(scoreboard, "season"),
                    gamesCount |-> OptLength(games),
                    games      |-> games,
                    newsCount  |-> OptLength(headlines),
                    news       |-> headlines,
                    fetchedAt  |-> IsoString(at),
                    dataSource |-> Str("ESPN API (live)")]))

(***************************************************************************)
(* Entrypoints and the normalizer each one applies to the payloads its     *)
(* upstream calls returned, keyed by the position of the call.             *)
(***************************************************************************)
Entrypoints(i) ==
    IF i = "abbr" THEN {"overview", "scores", "team", "leaders", "player", "matchup"}
    ELSE {"overview", "games", "team", "player", "compare", "report"}

\* The identifiers of the input that the handler resolves, in order.
TeamFields(h) ==
    CASE h = "team"    -> 1
      [] h = "matchup" -> 2
      [] h = "compare" -> 2
      [] OTHER         -> 0

\* tids: what resolveTeamId returned for each identifier of the input.
Normalize(i, h, inp, tids, vals, at) ==
    IF i = "abbr"
    THEN CASE h = "overview" -> AbbrOverview(vals[1], vals[2], at)
           [] h = "scores"   -> AbbrScores(vals[1], at)
           [] h = "team"     -> AbbrTeam(tids[1], vals[1], vals[2], at)
           [] h = "leaders"  -> AbbrLeaders(inp.category, vals[1], at)
           [] h = "player"   -> AbbrPlayer(vals[1], at)
           [] h = "matchup"  -> AbbrMatchup(inp.teams[1], inp.teams[2],
                                            vals[1], vals[2], vals[3], vals[4], at)
    ELSE CASE h = "overview" -> IdsOverview(vals[1], at)
           [] h = "games"    -> IdsGames(vals[1], at)
           [] h = "team"     -> IdsTeam(vals[1], vals[2], at)
           [] h = "player"   -> IdsPlayer(inp.playerId, vals[1], at)
           [] h = "compare"  -> IdsCompare(vals[1], vals[2], vals[3], vals[4], at)
           [] h = "report"   -> IdsReport(vals[1], vals[2], at)

(***************************************************************************)
(* Bounded sets of upstream payloads.  Every optional field or sub-object  *)
(* the normalizers read is present in some payloads and missing in others. *)
(***************************************************************************)
\* Sequences over S of length 0..n.
SeqsUpTo(S, n) == UNION {[1..k -> S] : k \in 0..n}

\* An object with the fields of rec whose value is not Undefined.
Fields(rec) == Obj([k \in {f \in DOMAIN rec : rec[f] # Undefined} |-> rec[k]])

\* A list longer than every slice(0, 5) keeps, alternating two elements.
LongList(x, y) == [i \in 1..6 |-> IF i % 2 = 1 THEN x ELSE y]

\* events[] and the other lists: missing, or any short list, or a long one.
Lists(S, n) ==
    {Undefined} \cup {Arr(q) : q \in SeqsUpTo(S, n)}
                \cup {Arr(LongList(x, y)) : x \in S, y \in S}

\* The ID the upstream gives the team of an abbreviation.
TeamIdOf(abbr) ==
    CASE abbr = "LAL" -> TEAM_ABBR_TO_ID[<<"L","A","L">>]
      [] abbr = "BOS" -> TEAM_ABBR_TO_ID[<<"B","O","S">>]
      [] abbr = "DEN" -> TEAM_ABBR_TO_ID[<<"D","E","N">>]
      [] abbr = "NYK" -> TEAM_ABBR_TO_ID[<<"N","Y","K">>]
      [] abbr = "GSW" -> TEAM_ABBR_TO_ID[<<"G","S","W">>]
      [] abbr = "MIA" -> TEAM_ABBR_TO_ID[<<"M","I","A">>]

Competitor(side, abbr, score, winner) ==
    Fields([homeAway |-> Str(side),
            team     |-> Obj([id |-> Text(TeamIdOf(abbr)),
                              abbreviation |-> Str(abbr), displayName |-> Str(abbr)]),
            score    |-> score,
            winner   |-> winner,
            records  |-> IF score = Undefined THEN Undefined
                         ELSE Arr(<<Obj([summary |-> Str("30-12")])>>)])

Status(detail, state, completed) ==
    Obj([type |-> Obj([shortDetail |-> Str(detail), description |-> Str(detail),
                       state |-> Str(state), completed |-> Bool(completed)]),
         period |-> Num(IF completed THEN 4 ELSE 0),
         displayClock |-> Str("0:00")])

\* A finished game, home side listed first.
GameFinal ==
    Obj([id |-> Str("401"), shortName |-> Str("BOS @ LAL"), name |-> Str("Celtics at Lakers"),
         date |-> Str("2026-01-31T00:00Z"),
         status |-> Status("Final", "post", TRUE),
         competitions |-> Arr(<<Obj([
              venue |-> Obj([fullName |-> Str("Crypto.com Arena")]),
              broadcasts |-> Arr(<<Obj([names |-> Arr(<<Str("ESPN")>>)])>>),
              competitors |-> Arr(<<Competitor("home", "LAL", Str("110"), Bool(TRUE)),
                                    Competitor("away", "BOS", Str("102"), Bool(FALSE))>>)])>>)])

\* A game that has not started: its competitors carry no score.
GameScheduled ==
    Obj([id |-> Str("402"), shortName |-> Str("NYK @ GSW"),
         status |-> Status("7:30 PM", "pre", FALSE),
         competitions |-> Arr(<<Obj([
              competitors |-> Arr(<<Competitor("home", "GSW", Undefined, Undefined),
                                    Competitor("away", "NYK", Undefined, Undefined)>>)])>>)])

\* A finished game whose competitors are listed away side first.
GameAwayFirst ==
    Obj([id |-> Str("403"), shortName |-> Str("MIA @ DEN"),
         status |-> Status("Final", "post", TRUE),
         competitions |-> Arr(<<Obj([
              venue |-> EmptyObject,
              competitors |-> Arr(<<Competitor("away", "MIA", Str("99"), Bool(TRUE)),
                                    Competitor("home", "DEN", Str("95"), Bool(FALSE))>>)])>>)])

ScoreboardEvents ==
    {GameFinal, GameScheduled, GameAwayFirst, Obj([id |-> Str("404"), status |-> EmptyObject]),
     EmptyObject}

Days == {Undefined, EmptyObject, Obj([date |-> Str("2026-01-31")]), Obj([date |-> Str("")])}

Scoreboards(n) ==
    {Fields([day |-> d, season |-> s, events |-> ev]) :
        d \in Days, s \in {Undefined}, ev \in Lists(ScoreboardEvents, n)}
      \cup {Fields([day |-> Undefined, season |-> Obj([year |-> Num(2026)]),
                    events |-> Arr(<<>>)])}

Articles ==
    { Obj([headline |-> Str("Trade deadline"), description |-> Str("d"),
           published |-> Str("2026-01-30"),
           links |-> Obj([web |-> Obj([href |-> Str("https://espn.com/a")])])]),
      Obj([headline |-> Str("Injury report")]),
      EmptyObject }

NewsPayloads(n) == {Fields([articles |-> a]) : a \in Lists(Articles, n)}

\* Schedule events of the Lakers: a game they won, a game they lost, a game
\* not yet played, a bare event.
ScheduleWon ==
    Obj([shortName |-> Str("BOS @ LAL"), date |-> Str("2026-01-20"),
         status |-> Status("Final", "post", TRUE),
         competitions |-> Arr(<<Obj([competitors |->
              Arr(<<Competitor("home", "LAL", Str("110"), Bool(TRUE)),
                    Competitor("away", "BOS", Str("102"), Bool(FALSE))>>)])>>)])

ScheduleLost ==
    Obj([shortName |-> Str("LAL @ DEN"), date |-> Str("2026-01-22"),
         status |-> Status("Final", "post", TRUE),
         competitions |-> Arr(<<Obj([competitors |->
              Arr(<<Competitor("home", "DEN", Str("120"), Bool(TRUE)),
                    Competitor("away", "LAL", Str("101"), Bool(FALSE))>>)])>>)])

ScheduleUpcoming ==
    Obj([shortName |-> Str("LAL @ NYK"), date |-> Str("2026-02-02"),
         status |-> Status("7:30 PM", "pre", FALSE),
         competitions |-> Arr(<<Obj([competitors |->
              Arr(<<Competitor("home", "NYK", Undefined, Undefined),
                    Competitor("away", "LAL", Undefined, Undefined)>>)])>>)])

\* A game broken off while the Lakers led: a winner is flagged on it, but it
\* is not completed.
ScheduleAbandoned ==
    Obj([shortName |-> Str("MIA @ LAL"), date |-> Str("2026-01-25"),
         status |-> Status("Postponed", "post", FALSE),
         competitions |-> Arr(<<Obj([competitors |->
              Arr(<<Competitor("home", "LAL", Str("60"), Bool(TRUE)),
                    Competitor("away", "MIA", Str("48"), Bool(FALSE))>>)])>>)])

ScheduleEvents ==
    {ScheduleWon, ScheduleLost, ScheduleUpcoming, ScheduleAbandoned, EmptyObject}

Schedules(n) == {Fields([events |-> ev]) : ev \in Lists(ScheduleEvents, n)}

RosterAthletes ==
    { Obj([id |-> Str("1966"), displayName |-> Str("LeBron James"), jersey |-> Str("23"),
           position |-> Obj([abbreviation |-> Str("F")]), displayHeight |-> Str("6-9"),
           displayWeight |-> Str("250 lbs"), age |-> Num(41)]),
      Obj([displayName |-> Str("Rookie")]) }

RosterTeams ==
    { Undefined, EmptyObject,
      Obj([id |-> Str("13"), displayName |-> Str("Los Angeles Lakers"),
           abbreviation |-> Str("LAL"), location |-> Str("Los Angeles"),
           color |-> Str("552583"), logo |-> Str("lal.png")]) }

Rosters(n) ==
    {Fields([team |-> tm, athletes |-> a]) : tm \in RosterTeams, a \in Lists(RosterAthletes, n)}

\* teams/{id} of "ids": the team object may be missing.
TeamDetails ==
    { EmptyObject,
      Obj([team |-> EmptyObject]),
      Obj([team |-> Obj([id |-> Str("13"), displayName |-> Str("Los Angeles Lakers"),
                         abbreviation |-> Str("LAL"), location |-> Str("Los Angeles"),
                         color |-> Str("552583")])]),
      Obj([team |-> Obj([id |-> Str("2"), displayName |-> Str("Boston Celtics"),
                         abbreviation |-> Str("BOS"),
                         logos |-> Arr(<<Obj([href |-> Str("bos.png")])>>)])]) }

Stat(name, value) == Obj([name |-> Str(name), value |-> Num(value)])

\* statistics/byathlete entries.  The second one scores more than the first,
\* repeats a name and carries a name no field asks for.
LeaderAthletes ==
    { Obj([athlete |-> Obj([displayName |-> Str("P1"), teamShortName |-> Str("LAL"),
                            position |-> Obj([abbreviation |-> Str("G")])]),
           categories |-> Arr(<<Obj([stats |-> Arr(<<Stat("gamesPlayed", 50), Stat("avgPoints", 30),
                                                    Stat("avgRebounds", 8), Stat("avgAssists", 9),
                                                    Stat("avgSteals", 1), Stat("avgBlocks", 2)>>)]),
                                Obj([stats |-> Arr(<<Stat("avgPoints", 1)>>)])>>)]),
      Obj([athlete |-> Obj([displayName |-> Str("P2")]),
           categories |-> Arr(<<Obj([stats |-> Arr(<<Stat("avgPoints", 33), Stat("avgPoints", 10),
                                                    Stat("turnovers", 7)>>)])>>)]),
      Obj([athlete |-> Obj([displayName |-> Str("P3")])]),
      Obj([categories |-> Arr(<<EmptyObject>>)]) }

LeaderPayloads(n) == {Fields([athletes |-> a]) : a \in Lists(LeaderAthletes, n)}

\* athletes/{id} of "abbr".
AthletePayloads ==
    { EmptyObject,
      Obj([athlete |-> EmptyObject]),
      Obj([athlete |-> Obj([id |-> Str("3112335"), displayName |-> Str("Nikola Jokic"),
                            position |-> Obj([name |-> Str("Center")]),
                            team |-> Obj([id |-> Str("7"), displayName |-> Str("Denver Nuggets")]),
                            draft |-> Obj([year |-> Num(2014), round |-> Num(2), selection |-> Num(41)]),
                            experience |-> Obj([years |-> Num(10)]),
                            statsSummary |-> Obj([statistics |-> Arr(<<Obj([stats |->
                                Arr(<<Stat("avgPoints", 26), Stat("avgRebounds", 12)>>)])>>)]),
                            career |-> Obj([stats |-> Arr(<<Obj([categories |->
                                Arr(<<Obj([stats |-> Arr(<<Stat("avgPoints", 21)>>)])>>)])>>)])])]),
      Obj([athlete |-> Obj([id |-> Str("1"), displayName |-> Str("Undrafted"),
                            statsSummary |-> EmptyObject])]) }

\* athletes/{id}/overview of "ids"; gameLog.events is keyed by game ID.
AthleteOverviews ==
    { EmptyObject,
      Obj([news |-> Obj([header |-> Str("Nikola Jokic")]),
           statistics |-> Obj([splits |-> Obj([categories |-> Arr(<<Obj([stats |->
                Arr(<<Obj([abbreviation |-> Str("PTS"), displayValue |-> Str("26.1")]),
                      Obj([abbreviation |-> Str("REB"), displayValue |-> Str("12.3")])>>)])>>)])]),
           gameLog |-> Obj([events |-> Obj(<<
                Obj([gameDate |-> Str("2026-01-20"), opponent |-> Obj([displayName |-> Str("Lakers")]),
                     gameResult |-> Str("W")]),
                Obj([gameDate |-> Str("2026-01-22")])>>)]),
           fantasy |-> Obj([rank |-> Num(1)])]),
      Obj([gameLog |-> EmptyObject, statistics |-> Obj([splits |-> EmptyObject])]) }

(***************************************************************************)
(* The upstream calls of each entrypoint, in the order the handler lists   *)
(* them, and the payloads each endpoint may answer with.                   *)
(***************************************************************************)
Roles(i, h) ==
    IF i = "abbr"
    THEN CASE h = "overview" -> <<"scoreboard", "news">>
           [] h = "scores"   -> <<"scoreboard">>
           [] h = "team"     -> <<"roster", "schedule">>
           [] h = "leaders"  -> <<"byathlete">>
           [] h = "player"   -> <<"athlete">>
           [] h = "matchup"  -> <<"roster", "roster", "schedule", "schedule">>
    ELSE CASE h = "overview" -> <<"scoreboard">>
           [] h = "games"    -> <<"scoreboard">>
           [] h = "team"     -> <<"teamdetail", "roster">>
           [] h = "player"   -> <<"athleteoverview">>
           [] h = "compare"  -> <<"teamdetail", "teamdetail", "roster", "roster">>
           [] h = "report"   -> <<"scoreboard", "news">>

Payloads(endpoint) ==
    CASE endpoint = "scoreboard"      -> Scoreboards(MaxEvents)
      [] endpoint = "news"            -> NewsPayloads(MaxArticles)
      [] endpoint = "roster"          -> Rosters(MaxAthletes)
      [] endpoint = "schedule"        -> Schedules(MaxEvents)
      [] endpoint = "byathlete"       -> LeaderPayloads(MaxAthletes)
      [] endpoint = "athlete"         -> AthletePayloads
      [] endpoint = "athleteoverview" -> AthleteOverviews
      [] endpoint = "teamdetail"      -> TeamDetails

\* Two payloads per endpoint, one populated and one with everything missing,
\* for the roles that are not the one being varied.
FewPayloads(endpoint) ==
    CASE endpoint = "scoreboard" ->
            {Obj([day |-> Obj([date |-> Str("2026-01-31")]),
                  events |-> Arr(<<GameFinal, GameScheduled>>)]), EmptyObject}
      [] endpoint = "news" ->
            {Obj([articles |-> Arr(<<Obj([headline |-> Str("Injury report")])>>)]), EmptyObject}
      [] endpoint = "roster" ->
            {Obj([team |-> Obj([id |-> Str("13"), displayName |-> Str("Los Angeles Lakers"),
                                abbreviation |-> Str("LAL"), location |-> Str("Los Angeles"),
                                color |-> Str("552583"), logo |-> Str("lal.png")]),
                  athletes |-> Arr(<<Obj([displayName |-> Str("Rookie")])>>)]), EmptyObject}
      [] endpoint = "schedule" ->
            {Obj([events |-> Arr(<<ScheduleWon, ScheduleLost>>)]), EmptyObject}
      [] endpoint = "byathlete" ->
            {Obj([athletes |-> Arr(<<Obj([athlete |-> Obj([displayName |-> Str("P3")])])>>)]),
             EmptyObject}
      [] endpoint = "athlete"         -> {Obj([athlete |-> EmptyObject]), EmptyObject}
      [] endpoint = "athleteoverview" ->
            {Obj([gameLog |-> EmptyObject, statistics |-> Obj([splits |-> EmptyObject])]),
             EmptyObject}
      [] endpoint = "teamdetail" ->
            {Obj([team |-> Obj([id |-> Str("13"), displayName |-> Str("Los Angeles Lakers"),
                                abbreviation |-> Str("LAL"), location |-> Str("Los Angeles"),
                                color |-> Str("552583")])]), EmptyObject}

RECURSIVE Product(_)
Product(sets) ==
    IF sets = <<>> THEN {<<>>}
    ELSE {<<x>> \o rest : x \in Head(sets), rest \in Product(Tail(sets))}

\* One role ranges over all the payloads of its endpoint, the others over few.
PayloadTuples(i, h) ==
    LET roles == Roles(i, h)
    IN  UNION {Product([j \in 1..Len(roles) |->
                            IF j = r THEN Payloads(roles[j]) ELSE FewPayloads(roles[j])])
               : r \in 1..Len(roles)}

LAL == <<"L", "A", "L">>
Bos == <<"b", "o", "s">>
Thirteen == <<"1", "3">>

\* Inputs the schema admits; the handlers resolve inp.teams[1..TeamFields(h)].
Inputs(h) ==
    [teams    : IF TeamFields(h) = 0 THEN {<<>>}
                ELSE IF TeamFields(h) = 1 THEN {<<LAL>>, <<Thirteen>>}
                ELSE {<<LAL, Bos>>, <<Bos, Thirteen>>},
     category : IF h = "leaders" THEN {Str("points"), Str("rebounds")} ELSE {Undefined},
     playerId : IF h = "player" THEN {Str("3112335")} ELSE {Undefined}]

\* resolveTeamId of each identifier of the input, in order.
ResolveAll(i, h, inp) == [j \in 1..TeamFields(h) |-> resolveTeamId(i, inp.teams[j])]

(***************************************************************************)
(* One request: the handler resolves the identifiers, issues its fetchJSON *)
(* calls, awaits them, and normalizes.  Network events arrive one at a     *)
(* time, and the promise jobs an event queues run before the next event.   *)
(***************************************************************************)
\* What the upstream may answer with: no answer at all, or an HTTP status.
Statuses == {200, 404, 500}

NetworkFailure == [kind |-> "failure"]
Response(status) == [kind |-> "response", status |-> status]

\* Faulty variant: only server errors count as failures.
OkBelow500(response) == response.status < 500

\* response.ok
Ok(response) == response.status >= 200 /\ response.status <= 299

\* The errors a fetchJSON call rejects with; call is the identity of the call.
TransportError(j) == [type |-> "TypeError", message |-> "fetch failed", call |-> j]
HttpError(status, j) ==
    [type |-> "Error", message |-> "ESPN API error", status |-> status, call |-> j]
SyntaxError(j) == [type |-> "SyntaxError", message |-> "Unexpected token", call |-> j]
UnknownTeamError(r) == [type |-> "Error", message |-> r.error, team |-> r.team]

Value(p) == [kind |-> "value", payload |-> p]
Failure(e) == [kind |-> "error", error |-> e]

\* A fetchJSON call that has called fetch(url) and awaits the response.
Fetching(endpoint) ==
    [st |-> "fetching", endpoint |-> endpoint, response |-> Idle, result |-> Idle]

\* Faulty variant: a response with an error status makes the call fetch the
\* URL again instead of failing.
fetchJSONRetrying(call, j, answer) ==
    IF answer.kind = "failure"
    THEN [call EXCEPT !.st = "rejected", !.response = answer,
                      !.result = Failure(TransportError(j))]
    ELSE IF ~Ok(answer)
    THEN [call EXCEPT !.st = "fetching", !.response = answer]
    ELSE [call EXCEPT !.st = "parsing", !.response = answer]

\* fetchJSON once fetch(url) has settled with `answer`.
fetchJSON(call, j, answer) ==
    IF answer.kind = "failure"
    THEN [call EXCEPT !.st = "rejected", !.response = answer,
                      !.result = Failure(TransportError(j))]
    ELSE IF ~Ok(answer)
    THEN [call EXCEPT !.st = "rejected", !.response = answer,
                      !.result = Failure(HttpError(answer.status, j))]
    ELSE [call EXCEPT !.st = "parsing", !.response = answer]

Malformed == [kind |-> "malformed"]
Json(p) == [kind |-> "json", payload |-> p]

\* fetchJSON once response.json() has settled on `body`.
responseJson(call, j, body) ==
    IF body.kind = "malformed"
    THEN [call EXCEPT !.st = "rejected", !.result = Failure(SyntaxError(j))]
    ELSE [call EXCEPT !.st = "fulfilled", !.result = Value(body.payload)]

\* Promise.all(calls), just created.
NewJoin(n) ==
    [st |-> "pending", values |-> [j \in 1..n |-> Undefined], remaining |-> n, reason |-> Idle]

\* Faulty variant: a rejected element is taken as fulfilled with undefined, as if
\* every call ended in .catch(() => undefined).
AllReactionSwallowsFailure(jn, j, call) ==
    [jn EXCEPT !.values[j] = IF call.st = "fulfilled" THEN call.result.payload ELSE Undefined,
               !.remaining = jn.remaining - 1,
               !.st = IF jn.st = "pending" /\ jn.remaining = 1 THEN "fulfilled" ELSE jn.st]

\* Faulty variant: a fulfilled element's value is stored at the next free position,
\* in the order of completion, not at the position of its call.
AllReactionByCompletion(jn, j, call) ==
    IF call.st = "fulfilled"
    THEN [jn EXCEPT !.values[Len(jn.values) - jn.remaining + 1] = call.result.payload,
                    !.remaining = jn.remaining - 1,
                    !.st = IF jn.st = "pending" /\ jn.remaining = 1
                           THEN "fulfilled" ELSE jn.st]
    ELSE IF jn.st = "pending"
         THEN [jn EXCEPT !.st = "rejected", !.reason = call.result.error]
         ELSE jn

\* Promise.all's reaction to the settling of its j-th element.
AllReaction(jn, j, call) ==
    IF call.st = "fulfilled"
    THEN [jn EXCEPT !.values[j] = call.result.payload,
                    !.remaining = jn.remaining - 1,
                    !.st = IF jn.st = "pending" /\ jn.remaining = 1
                           THEN "fulfilled" ELSE jn.st]
    ELSE IF jn.st = "pending"
         THEN [jn EXCEPT !.st = "rejected", !.reason = call.result.error]
         ELSE jn

ReactionJob(j) == [job |-> "reaction", call |-> j]
ResumeJob == [job |-> "resume", call |-> 0]

\* Requests: also with identifiers that do not resolve.
XYZ == <<"X", "Y", "Z">>

Requests(h) ==
    [teams    : IF TeamFields(h) = 0 THEN {<<>>}
                ELSE IF TeamFields(h) = 1 THEN {<<LAL>>, <<XYZ>>}
                ELSE {<<LAL, Bos>>, <<XYZ, Bos>>, <<LAL, XYZ>>},
     category : IF h = "leaders" THEN {Str("points")} ELSE {Undefined},
     playerId : IF h = "player" THEN {Str("3112335")} ELSE {Undefined}]

Init ==
    /\ impl \in Impls
    /\ handler \in Entrypoints(impl)
    /\ input \in Requests(handler)
    /\ hpc = "ready"
    /\ ids = <<>>
    /\ calls = <<>>
    /\ join = Idle
    /\ microtasks = <<>>
    /\ settled = <<>>
    /\ outcome = Pending
    /\ clock = Idle
    /\ team = <<>> /\ resolved = Idle /\ payloads = <<>>
    /\ previous = Idle /\ requests = <<>> /\ aliases = Idle

\* The identifiers resolved one after the other up to the first that throws.
FirstUnresolved(rs) ==
    IF \E j \in 1..Len(rs) : rs[j].kind = "throw"
    THEN CHOOSE j \in 1..Len(rs) : rs[j].kind = "throw" /\ \A k \in 1..(j - 1) : rs[k].kind # "throw"
    ELSE 0

\* Faulty variant: each identifier is resolved inside the URL of the call
\* that uses it, so the calls listed before the first unresolvable
\* identifier is used are issued before the handler throws.
HandlerStartResolvesInline ==
    /\ hpc = "ready"
    /\ LET rs == ResolveAll(impl, handler, input)
           bad == FirstUnresolved(rs)
           roles == Roles(impl, handler)
           issued == IF bad = 0 THEN Len(roles) ELSE bad - 1
       IN  /\ hpc' = IF bad # 0 THEN "threw" ELSE "awaiting"
           /\ outcome' = IF bad # 0 THEN Threw(UnknownTeamError(rs[bad])) ELSE outcome
           /\ ids' = IF bad # 0 THEN SubSeq(rs, 1, bad - 1) ELSE rs
           /\ calls' = [j \in 1..issued |-> Fetching(roles[j])]
           /\ join' = NewJoin(issued)
    /\ UNCHANGED <<impl, handler, input, microtasks, settled, clock, team, resolved, payloads>>
    /\ UNCHANGED serverVars

\* The handler up to its await: resolveTeamId of every identifier, then all
\* the fetchJSON calls at once, then Promise.all of them.
HandlerStart ==
    /\ hpc = "ready"
    /\ LET rs == ResolveAll(impl, handler, input)
           bad == FirstUnresolved(rs)
           roles == Roles(impl, handler)
       IN  IF bad # 0
           THEN /\ hpc' = "threw"
                /\ outcome' = Threw(UnknownTeamError(rs[bad]))
                /\ ids' = SubSeq(rs, 1, bad - 1)
                /\ UNCHANGED <<calls, join>>
           ELSE /\ hpc' = "awaiting"
                /\ ids' = rs
                /\ calls' = [j \in 1..Len(roles) |-> Fetching(roles[j])]
                /\ join' = NewJoin(Len(roles))
                /\ UNCHANGED outcome
    /\ UNCHANGED <<impl, handler, input, microtasks, settled, clock, team, resolved, payloads>>
    /\ UNCHANGED serverVars

\* fetch(url) of call j settles: the network failed, or a response arrived.
FetchSettles(j) ==
    /\ j \in DOMAIN calls
    /\ calls[j].st = "fetching"
    /\ microtasks = <<>>
    /\ \E answer \in {NetworkFailure} \cup {Response(s) : s \in Statuses} :
         LET after == fetchJSON(calls[j], j, answer)
         IN  /\ calls' = [calls EXCEPT ![j] = after]
             /\ IF after.st = "rejected"
                THEN /\ microtasks' = <<ReactionJob(j)>>
                     /\ settled' = Append(settled, j)
                ELSE UNCHANGED <<microtasks, settled>>
    /\ UNCHANGED <<impl, handler, input, hpc, ids, join, outcome, clock, team, resolved, payloads>>
    /\ UNCHANGED serverVars

\* response.json() of call j settles: the body parsed, or it is not JSON.
BodySettles(j) ==
    /\ j \in DOMAIN calls
    /\ calls[j].st = "parsing"
    /\ microtasks = <<>>
    /\ \E body \in {Malformed} \cup {Json(p) : p \in FewPayloads(calls[j].endpoint)} :
         /\ calls' = [calls EXCEPT ![j] = responseJson(calls[j], j, body)]
         /\ microtasks' = <<ReactionJob(j)>>
         /\ settled' = Append(settled, j)
    /\ UNCHANGED <<impl, handler, input, hpc, ids, join, outcome, clock, team, resolved, payloads>>
    /\ UNCHANGED serverVars

\* Promise.all reacts to one settled call; when that settles Promise.all,
\* the awaiting handler is queued to resume.
RunReaction ==
    /\ microtasks # <<>>
    /\ Head(microtasks).job = "reaction"
    /\ LET j == Head(microtasks).call
           after == AllReaction(join, j, calls[j])
       IN  /\ join' = after
           /\ microtasks' = IF join.st = "pending" /\ after.st # "pending"
                            THEN Append(Tail(microtasks), ResumeJob)
                            ELSE Tail(microtasks)
    /\ UNCHANGED <<impl, handler, input, hpc, ids, calls, settled, outcome, clock,
                   team, resolved, payloads>>
    /\ UNCHANGED serverVars

\* What the handler does with the settled Promise.all: throw its reason, or
\* normalize the values (which may throw) and return.
HandlerAfterAwait(i, h, inp, rs, jn, now) ==
    IF jn.st = "rejected" THEN Threw(jn.reason)
    ELSE Normalize(i, h, inp, [j \in 1..Len(rs) |-> rs[j].val], jn.values, now)

\* The handler resumes after its await.
HandlerResumes ==
    /\ microtasks # <<>>
    /\ Head(microtasks).job = "resume"
    /\ hpc = "awaiting"
    /\ \E now \in Instants :
         LET out == HandlerAfterAwait(impl, handler, input, ids, join, now)
         IN  /\ outcome' = out
             /\ clock' = now
             /\ hpc' = IF out.kind = "output" THEN "returned" ELSE "threw"
    /\ microtasks' = Tail(microtasks)
    /\ UNCHANGED <<impl, handler, input, ids, calls, join, settled, team, resolved, payloads>>
    /\ UNCHANGED serverVars

Next ==
    \/ HandlerStart
    \/ \E j \in 1..4 : FetchSettles(j)
    \/ \E j \in 1..4 : BodySettles(j)
    \/ RunReaction
    \/ HandlerResumes

Spec == Init /\ [][Next]_vars

(***************************************************************************)
(* The normalizers alone: an entrypoint's normalization applied to one     *)
(* tuple of payloads.                                                      *)
(***************************************************************************)
InitNormalize ==
    /\ impl \in Impls
    /\ handler \in Entrypoints(impl)
    /\ input \in Inputs(handler)
    /\ payloads \in PayloadTuples(impl, handler)
    /\ clock \in Instants
    /\ outcome = Pending
    /\ team = <<>>
    /\ resolved = Idle
    /\ hpc = "none" /\ ids = <<>> /\ calls = <<>> /\ join = Idle
    /\ microtasks = <<>> /\ settled = <<>>
    /\ previous = Idle /\ requests = <<>> /\ aliases = Idle

\* The handler's code after its await, on the payloads by role.
NormalizeStep ==
    /\ outcome = Pending
    /\ outcome' = Normalize(impl, handler, input,
                            [j \in 1..TeamFields(handler) |->
                                 ResolveAll(impl, handler, input)[j].val],
                            payloads, clock)
    /\ UNCHANGED <<impl, handler, input, payloads, clock, team, resolved>>
    /\ UNCHANGED requestVars
    /\ UNCHANGED serverVars

NextNormalize == NormalizeStep

SpecNormalize == InitNormalize /\ [][NextNormalize]_vars

(***************************************************************************)
(* The normalizers run again: the same entrypoint handles the same input   *)
(* and the same payloads a second time, at whatever time that happens.     *)
(***************************************************************************)
\* The handler's code after its await once more, with a new clock reading.
NormalizeAgain ==
    /\ outcome # Pending
    /\ previous = Idle
    /\ previous' = outcome
    /\ \E now \in Instants :
         /\ clock' = now
         /\ outcome' = Normalize(impl, handler, input,
                                 [j \in 1..TeamFields(handler) |->
                                      ResolveAll(impl, handler, input)[j].val],
                                 payloads, now)
    /\ UNCHANGED <<impl, handler, input, payloads, team, resolved, requests, aliases>>
    /\ UNCHANGED requestVars

NextRepeat == NormalizeStep \/ NormalizeAgain

SpecRepeat == InitNormalize /\ [][NextRepeat]_vars

(***************************************************************************)
(* Concurrent requests: the server runs several handler invocations at     *)
(* once.  Each invocation runs up to its await, and goes on when a network *)
(* event of one of its own calls arrives; an event's promise jobs run to   *)
(* completion before the next event.  The alias table is the one object    *)
(* all invocations read.                                                   *)
(***************************************************************************)
MaxRequests == 2

\* The entrypoints and inputs of the concurrent requests: team, which both
\* implementations have, resolves an identifier, awaits two calls and, in
\* "abbr", puts the resolved ID into its output.
ConcurrentEntrypoints(i) == {"team"}

ConcurrentInputs(h) ==
    [teams    : IF TeamFields(h) = 0 THEN {<<>>} ELSE {<<LAL>>, <<Bos>>, <<XYZ>>},
     category : {Undefined},
     playerId : {Undefined}]

\* What the upstream answers a concurrent request with, and the reading of
\* the clock while the requests are handled.
ConcurrentAnswers == {Response(200), Response(500)}
ConcurrentInstants == {[day |-> 1, tick |-> 0]}

\* A handler invocation that has not run yet.
NewRequest(h, inp) ==
    [handler |-> h, input |-> inp, hpc |-> "ready", ids |-> <<>>, calls |-> <<>>,
     join |-> Idle, settled |-> <<>>, outcome |-> Pending, clock |-> Idle]

\* Faulty variant: the resolved IDs are held in a module-level variable that
\* every invocation assigns, so an invocation finds there the IDs of the
\* latest (here: highest-numbered) invocation that resolved some.
ClosureWithSharedIds(r) ==
    LET resolvers == {q \in DOMAIN requests : requests[q].ids # <<>>}
    IN  IF resolvers = {} THEN requests[r]
        ELSE [requests[r] EXCEPT
                !.ids = requests[CHOOSE q \in resolvers : \A o \in resolvers : o <= q].ids]

\* The bindings of handler invocation r: ctx, the resolved IDs, its promises.
Closure(r) == requests[r]

\* The invocation after the handler ran up to its await (as HandlerStart).
Started(q, table) ==
    LET rs == [j \in 1..TeamFields(q.handler) |->
                   resolveTeamIdIn(table, impl, q.input.teams[j])]
        bad == FirstUnresolved(rs)
        roles == Roles(impl, q.handler)
    IN  IF bad # 0
        THEN [q EXCEPT !.hpc = "threw", !.outcome = Threw(UnknownTeamError(rs[bad])),
                       !.ids = SubSeq(rs, 1, bad - 1)]
        ELSE [q EXCEPT !.hpc = "awaiting", !.ids = rs,
                       !.calls = [j \in 1..Len(roles) |-> Fetching(roles[j])],
                       !.join = NewJoin(Len(roles))]

\* The invocation after its call j settled as `call`: Promise.all reacts
\* and, when that settles it, the handler resumes at clock reading `now`.
Settled(q, j, call, now) ==
    LET jn == AllReaction(q.join, j, call)
        q1 == [q EXCEPT !.calls[j] = call, !.settled = Append(@, j), !.join = jn]
    IN  IF q.join.st = "pending" /\ jn.st # "pending"
        THEN LET out == HandlerAfterAwait(impl, q.handler, q.input, q.ids, jn, now)
             IN  [q1 EXCEPT !.outcome = out,
                            !.clock = IF out.kind = "output" THEN now ELSE @,
                            !.hpc = IF out.kind = "output" THEN "returned" ELSE "threw"]
        ELSE q1

InitConcurrent ==
    /\ impl \in Impls
    /\ aliases = IF impl = "abbr" THEN TEAM_ABBR_TO_ID ELSE TEAM_IDS
    /\ requests \in [1..MaxRequests ->
                        UNION {{NewRequest(h, inp) : inp \in ConcurrentInputs(h)}
                               : h \in ConcurrentEntrypoints(impl)}]
    /\ previous = Idle
    /\ team = <<>> /\ resolved = Idle /\ handler = "none" /\ input = Idle
    /\ payloads = <<>> /\ clock = Idle /\ outcome = Idle
    /\ hpc = "none" /\ ids = <<>> /\ calls = <<>> /\ join = Idle
    /\ microtasks = <<>> /\ settled = <<>>

\* Request r is dispatched: its handler runs up to its await.
RequestStarts(r) ==
    /\ requests[r].hpc = "ready"
    /\ requests' = [requests EXCEPT ![r] = Started(Closure(r), aliases)]
    /\ UNCHANGED <<impl, aliases, previous, team, resolved, handler, input, payloads,
                   clock, outcome>>
    /\ UNCHANGED requestVars

\* fetch(url) of call j of request r settles.
RequestFetchSettles(r, j) ==
    /\ j \in DOMAIN requests[r].calls
    /\ requests[r].calls[j].st = "fetching"
    /\ \E answer \in ConcurrentAnswers, now \in ConcurrentInstants :
         LET q == Closure(r)
             after == fetchJSON(q.calls[j], j, answer)
         IN  requests' = [requests EXCEPT ![r] =
                            IF after.st = "rejected" THEN Settled(q, j, after, now)
                            ELSE [q EXCEPT !.calls[j] = after]]
    /\ UNCHANGED <<impl, aliases, previous, team, resolved, handler, input, payloads,
                   clock, outcome>>
    /\ UNCHANGED requestVars

\* response.json() of call j of request r settles.
RequestBodySettles(r, j) ==
    /\ j \in DOMAIN requests[r].calls
    /\ requests[r].calls[j].st = "parsing"
    /\ \E body \in {Json(p) : p \in FewPayloads(requests[r].calls[j].endpoint)},
          now \in ConcurrentInstants :
         LET q == Closure(r)
         IN  requests' = [requests EXCEPT ![r] =
                            Settled(q, j, responseJson(q.calls[j], j, body), now)]
    /\ UNCHANGED <<impl, aliases, previous, team, resolved, handler, input, payloads,
                   clock, outcome>>
    /\ UNCHANGED requestVars

NextConcurrent ==
    \E r \in 1..MaxRequests :
        \/ RequestStarts(r)
        \/ \E j \in 1..2 : RequestFetchSettles(r, j)
        \/ \E j \in 1..2 : RequestBodySettles(r, j)

SpecConcurrent == InitConcurrent /\ [][NextConcurrent]_vars

(***************************************************************************)
(* The resolver alone: every identifier of the bounded input set is handed *)
(* to resolveTeamId of either implementation.                              *)
(***************************************************************************)
Alphabet == {"l", "a", "L", "A", " ", "1", "3", "0"}

BoundedStrings == UNION {[1..k -> Alphabet] : k \in 0..MaxLen}

\* Spellings of an alias that differ from it in case or in surrounding space.
Variants(k) ==
    LET cap == [i \in 1..Len(k) |-> IF i = 1 THEN toUpperChar(k[i]) ELSE toLowerChar(k[i])]
        cased == {k, toUpperCase(k), toLowerCase(k), cap}
    IN  cased \cup {<<" ">> \o c : c \in cased} \cup {c \o <<" ">> : c \in cased}
              \cup {<<"\t", " ">> \o c \o <<" ", "\n">> : c \in cased}

AliasVariants == UNION {Variants(k) : k \in DOMAIN TEAM_ABBR_TO_ID \cup DOMAIN TEAM_IDS}

SampleIdentifiers ==
    { <<"1","3","a","b","c">>, <<"1","e","1">>, <<"3","0",".","5">>, <<" ","1","3">>,
      <<"X","Y","Z">>, <<"x","y","z">>, <<"0">>, <<"3","1">>, <<"9","9","9">>,
      <<"1","3">>, <<"3","0">>, <<"1">>, <<"0","1","3">>, <<"0","x","1","e">>,
      <<"-","5">>, <<"+","7">>, <<"1","3"," ">>, <<"l","a","k">>, <<"l","a","l","x">>,
      <<"L","A">>, <<>>, <<" ">>, <<"7","6">>, <<"1","0","0","0","0">> }
        \cup DOMAIN ObjectPrototype
        \cup {toUpperCase(k) : k \in DOMAIN ObjectPrototype}

Identifiers == BoundedStrings \cup AliasVariants \cup SampleIdentifiers

InitResolve ==
    /\ impl \in Impls
    /\ team \in Identifiers
    /\ resolved = Pending
    /\ handler = "none"
    /\ input = Idle
    /\ payloads = <<>>
    /\ clock = Idle
    /\ outcome = Idle
    /\ hpc = "none" /\ ids = <<>> /\ calls = <<>> /\ join = Idle
    /\ microtasks = <<>> /\ settled = <<>>
    /\ previous = Idle /\ requests = <<>> /\ aliases = Idle

\* One call resolveTeamId(team).
Resolve ==
    /\ resolved = Pending
    /\ resolved' = resolveTeamId(impl, team)
    /\ UNCHANGED <<impl, team, handler, input, payloads, clock, outcome>>
    /\ UNCHANGED requestVars
    /\ UNCHANGED serverVars

NextResolve == Resolve

SpecResolve == InitResolve /\ [][NextResolve]_vars

(***************************************************************************)
(* Claims about the resolver (checked under SpecResolve).                  *)
(***************************************************************************)
AliasTable(i) == IF i = "abbr" THEN TEAM_ABBR_TO_ID ELSE TEAM_IDS

\* The identifier trimmed and case-normalized to the spelling of i's keys.
NormalizedKey(i, t) == IF i = "abbr" THEN toUpperCase(trim(t)) ELSE toLowerCase(trim(t))

\* The canonical ID an alias key stands for, as text.
CanonicalId(i, key) ==
    IF i = "abbr" THEN TEAM_ABBR_TO_ID[key] ELSE NumberToString(TEAM_IDS[key])

Returned(r, id) == r.kind = "return" /\ TemplateText(r.val) = id

\* C1: an identifier that is an alias key up to letter case and surrounding
\* white space resolves to the canonical ID of that key, in both
\* implementations.
C1_AliasResolvesToCanonicalId ==
    (resolved # Pending /\ NormalizedKey(impl, team) \in DOMAIN AliasTable(impl))
        => Returned(resolved, CanonicalId(impl, NormalizedKey(impl, team)))

\* C2: an identifier that, normalized, is no alias key and whose raw text is
\* not digits only is rejected with the unknown-team error; no ID is returned.
C2_UnmatchedIdentifierRejected ==
    (resolved # Pending /\ NormalizedKey(impl, team) \notin DOMAIN AliasTable(impl)
                        /\ ~TestDigitsOnly(team))
        => resolved.kind = "throw"

\* C3: a digits-only identifier with a value in 1..30 is returned as given,
\* and a digits-only identifier outside 1..30 is not returned.
C3_NumericPassthroughInRange ==
    (resolved # Pending /\ TestDigitsOnly(team))
        => IF DigitsValue(team, 10) \in 1..30
           THEN Returned(resolved, team)
           ELSE resolved.kind = "throw"

(***************************************************************************)
(* Claims about one request's upstream calls (checked under Spec).         *)
(***************************************************************************)
Rejected(j) == calls[j].st = "rejected"
Fulfilled(j) == calls[j].st = "fulfilled"

\* The call whose promise was the first to reject.
FirstFailure ==
    settled[CHOOSE n \in 1..Len(settled) :
                /\ Rejected(settled[n])
                /\ \A m \in 1..(n - 1) : ~Rejected(settled[m])]

\* C4: once one of the calls of a request has failed and the promise jobs of
\* that event have run, the handler has failed with the error of the call
\* that failed first, whatever the other calls did or will do; and an output
\* is never produced from a request one of whose calls failed.
C4_FailFast ==
    /\ (microtasks = <<>> /\ \E j \in DOMAIN calls : Rejected(j))
          => /\ hpc = "threw"
             /\ outcome = Threw(calls[FirstFailure].result.error)
    /\ outcome.kind = "output" => \A j \in DOMAIN calls : ~Rejected(j)

\* A matchup of which the third call failed first, another call failed later
\* with another error and a third one succeeded.
C4_Witness ==
    /\ impl = "abbr" /\ handler = "matchup" /\ hpc = "threw"
    /\ Len(settled) = 4 /\ microtasks = <<>>
    /\ FirstFailure = 3
    /\ outcome = Threw(HttpError(500, 3))
    /\ Rejected(1) /\ calls[1].response = NetworkFailure
    /\ Fulfilled(2)

\* C5: the output of a request all of whose calls succeeded is the
\* normalization of the payloads by the role of the call that received
\* them; the order in which the calls completed does not enter it.
C5_AggregationByRole ==
    hpc = "returned"
        => outcome = Normalize(impl, handler, input,
                               [j \in 1..Len(ids) |-> ids[j].val],
                               [j \in 1..Len(calls) |-> calls[j].result.payload],
                               clock)

\* A matchup returned although the away roster, a payload other than the
\* home roster, completed first and the home roster last.
C5_Witness ==
    /\ impl = "abbr" /\ handler = "matchup" /\ hpc = "returned"
    /\ settled = <<2, 4, 3, 1>>
    /\ calls[1].result.payload # calls[2].result.payload
    /\ calls[3].result.payload # calls[4].result.payload

\* C6: a request has completed, with a result or with an error, only when
\* every one of its upstream calls has settled.
C6_JoinNotRace ==
    hpc \in {"returned", "threw"}
        => \A j \in DOMAIN calls : Fulfilled(j) \/ Rejected(j)

\* C7: a call yields a payload only for a response with a success status; a
\* response with any other status makes it fail with an error carrying that
\* status, a network failure makes it fail with the transport error; and the
\* normalizer is handed a payload only from a call that yielded it.
C7_FetchJSONContract ==
    \A j \in DOMAIN calls :
        LET c == calls[j]
        IN  /\ Fulfilled(j) => /\ c.response.kind = "response"
                               /\ c.response.status \in 200..299
                               /\ c.result.kind = "value"
            /\ (c.response.kind = "response" /\ c.response.status \notin 200..299)
                  => /\ Rejected(j)
                     /\ c.result = Failure(HttpError(c.response.status, j))
            /\ c.response.kind = "failure"
                  => /\ Rejected(j)
                     /\ c.result = Failure(TransportError(j))
            /\ join.values[j] # Undefined
                  => /\ Fulfilled(j)
                     /\ join.values[j] = c.result.payload

\* A team request whose roster call got a 404 and whose schedule call never
\* got an answer, failed with the 404.
C7_Witness ==
    /\ handler = "team" /\ impl = "abbr" /\ hpc = "threw"
    /\ Len(settled) = 2
    /\ calls[1].response = Response(404)
    /\ calls[1].result = Failure(HttpError(404, 1))
    /\ calls[2].response = NetworkFailure
    /\ outcome = Threw(HttpError(404, 1))

(***************************************************************************)
(* Claims about the normalizers (checked under SpecNormalize).             *)
(***************************************************************************)
\* C8: the normalization of every entrypoint completes with an output on
\* every payload, whichever optional fields or sub-objects are missing.
C8_NormalizationTotal ==
    outcome # Pending => outcome.kind = "output"

Missing(v) == v = Undefined

\* The output fields of "abbr" the claim names, each with the upstream field
\* it is derived from.
DerivedFields ==
    LET out == outcome.output
        p(j) == payloads[j]
    IN  CASE handler = "overview" ->
                {<<Opt(Prop(p(1), "day"), "date"), Prop(out, "date")>>}
          [] handler = "matchup" ->
                {<<Prop(p(1), "athletes"), Prop(Prop(out, "homeTeam"), "rosterSize")>>,
                 <<Prop(p(1), "athletes"), Prop(Prop(out, "homeTeam"), "starters")>>,
                 <<Prop(p(3), "events"), Prop(Prop(out, "homeTeam"), "record")>>,
                 <<Prop(p(2), "athletes"), Prop(Prop(out, "awayTeam"), "rosterSize")>>,
                 <<Prop(p(2), "athletes"), Prop(Prop(out, "awayTeam"), "starters")>>,
                 <<Prop(p(4), "events"), Prop(Prop(out, "awayTeam"), "record")>>}
          [] handler = "team" ->
                {<<Prop(p(1), "athletes"), Prop(out, "rosterSize")>>,
                 <<Prop(p(1), "athletes"), Prop(out, "roster")>>,
                 <<Prop(p(2), "events"), Prop(out, "recentGames")>>}
          [] handler = "player" ->
                {<<Opt(Prop(p(1), "athlete"), "draft"), Prop(Prop(out, "player"), "draft")>>}
          [] handler = "scores" ->
                {<<Prop(p(1), "events"), Prop(out, "games")>>}
          [] handler = "leaders" ->
                {<<Prop(p(1), "athletes"), Prop(out, "leaders")>>}

\* C9: an output field derived from an optional upstream field is absent
\* (undefined) whenever that upstream field is missing from the payload.
C9_NoFabricatedValues ==
    (impl = "abbr" /\ outcome.kind = "output")
        => \A d \in DerivedFields : Missing(d[1]) => d[2] = Undefined

\* C10: the leaders list has one entry per athlete of the upstream list, in
\* the order received; the entry at position i carries rank i and the name
\* of the athlete received at position i.
C10_LeadersRankedByPosition ==
    (impl = "abbr" /\ handler = "leaders" /\ outcome.kind = "output"
                   /\ ~Missing(Prop(payloads[1], "athletes")))
        => LET athletes == Prop(payloads[1], "athletes").a
               leaders  == Prop(outcome.output, "leaders").a
           IN  /\ Len(leaders) = Len(athletes)
               /\ \A i \in 1..Len(athletes) :
                    /\ Prop(leaders[i], "rank") = Num(i)
                    /\ Prop(leaders[i], "name")
                         = Opt(Prop(athletes[i], "athlete"), "displayName")

\* Three athletes received with the lower scorer ahead of the higher one.
C10_Witness ==
    /\ impl = "abbr" /\ handler = "leaders" /\ outcome.kind = "output"
    /\ ~Missing(Prop(payloads[1], "athletes"))
    /\ LET leaders == Prop(outcome.output, "leaders").a
       IN  /\ Len(leaders) = 3
           /\ Prop(leaders[1], "points") = Num(30)
           /\ Prop(leaders[2], "points") = Num(33)
           /\ Prop(leaders[3], "name") = Str("P3")
           /\ Prop(leaders[3], "rank") = Num(3)

\* The output fields of a leaders entry with the statistic name each is
\* looked up by.
LeaderStatNames ==
    {<<"gamesPlayed", "gamesPlayed">>, <<"points", "avgPoints">>,
     <<"rebounds", "avgRebounds">>, <<"assists", "avgAssists">>,
     <<"steals", "avgSteals">>, <<"blocks", "avgBlocks">>}

\* The stat entries of the athlete's first category; none when the athlete
\* has no categories or the category has no stats.
FirstCategoryStats(a) ==
    LET cats == Prop(a, "categories")
    IN  IF cats.t = "array" /\ Len(cats.a) >= 1 /\ Prop(cats.a[1], "stats").t = "array"
        THEN Prop(cats.a[1], "stats").a
        ELSE <<>>

\* C11: every statistic field of a leaders entry is the value of the first
\* entry of the athlete's first category that carries the looked-up name,
\* and is absent when no entry carries it; an entry with another name never
\* fills it.
C11_StatByName ==
    (impl = "abbr" /\ handler = "leaders" /\ outcome.kind = "output"
                   /\ ~Missing(Prop(payloads[1], "athletes")))
        => LET athletes == Prop(payloads[1], "athletes").a
               leaders  == Prop(outcome.output, "leaders").a
           IN  \A i \in 1..Len(athletes) : \A fn \in LeaderStatNames :
                    LET list   == FirstCategoryStats(athletes[i])
                        named  == {k \in 1..Len(list) : Prop(list[k], "name") = Str(fn[2])}
                        field  == Prop(leaders[i], fn[1])
                    IN  IF named = {} THEN field = Undefined
                        ELSE field = Prop(list[CHOOSE k \in named : \A m \in named : k <= m],
                                          "value")

\* An athlete whose list repeats avgPoints and carries a name no field asks
\* for, next to an athlete without categories.
C11_Witness ==
    /\ impl = "abbr" /\ handler = "leaders" /\ outcome.kind = "output"
    /\ ~Missing(Prop(payloads[1], "athletes"))
    /\ LET athletes == Prop(payloads[1], "athletes").a
           leaders  == Prop(outcome.output, "leaders").a
       IN  /\ Len(leaders) = 2
           /\ Len(FirstCategoryStats(athletes[1])) = 3
           /\ Prop(leaders[1], "points") = Num(33)
           /\ Prop(leaders[1], "rebounds") = Undefined
           /\ Prop(athletes[2], "categories") = Undefined
           /\ Prop(leaders[2], "points") = Undefined

\* The competitors of the event's first competition; none when it has none.
FirstCompetitors(e) ==
    LET comps == Prop(e, "competitions")
    IN  IF comps.t = "array" /\ Len(comps.a) >= 1
                             /\ Prop(comps.a[1], "competitors").t = "array"
        THEN Prop(comps.a[1], "competitors").a
        ELSE <<>>

\* The score carried by the first competitor of the given side, if any.
SideScore(e, side) ==
    LET list == FirstCompetitors(e)
        of   == {k \in 1..Len(list) : Prop(list[k], "homeAway") = Str(side)}
    IN  IF of = {} THEN Undefined
        ELSE Prop(list[CHOOSE k \in of : \A m \in of : k <= m], "score")

\* The game records of the scores ("abbr") or games ("ids") output with, for
\* each, its home score, away score and status.
GameRecords ==
    LET games == Prop(outcome.output, "games").a
    IN  [i \in 1..Len(games) |->
            IF impl = "abbr"
            THEN [home   |-> Prop(games[i], "homeScore"),
                  away   |-> Prop(games[i], "awayScore"),
                  status |-> Prop(games[i], "status")]
            ELSE [home   |-> Prop(Prop(games[i], "homeTeam"), "score"),
                  away   |-> Prop(Prop(games[i], "awayTeam"), "score"),
                  status |-> Prop(games[i], "status")]]

\* The status text of an event: shortDetail in "abbr", description in "ids".
EventStatus(e) ==
    Opt(Opt(Prop(e, "status"), "type"), IF impl = "abbr" THEN "shortDetail" ELSE "description")

\* C12: the home and the away score of a game record are the scores of the
\* competitor of that side, never of the other; a game whose competitors
\* carry no score has both scores absent and its status taken from the
\* event's status.
C12_ScheduledGameScoresAbsent ==
    (/\ (impl = "abbr" /\ handler = "scores") \/ (impl = "ids" /\ handler = "games")
     /\ outcome.kind = "output"
     /\ ~Missing(Prop(payloads[1], "events")))
        => LET events == Prop(payloads[1], "events").a
           IN  /\ Len(GameRecords) = Len(events)
               /\ \A i \in 1..Len(events) :
                    LET e == events[i]
                        g == GameRecords[i]
                        list == FirstCompetitors(e)
                    IN  /\ g.home = SideScore(e, "home")
                        /\ g.away = SideScore(e, "away")
                        /\ (\A k \in 1..Len(list) : Prop(list[k], "score") = Undefined)
                              => /\ g.home = Undefined /\ g.away = Undefined
                                 /\ g.status = EventStatus(e)

\* A scheduled game without scores, then a finished one whose away side is
\* listed first.
C12_Witness ==
    /\ impl = "abbr" /\ handler = "scores" /\ outcome.kind = "output"
    /\ Prop(payloads[1], "events") = Arr(<<GameScheduled, GameAwayFirst>>)
    /\ GameRecords[1] = [home |-> Undefined, away |-> Undefined, status |-> Str("7:30 PM")]
    /\ GameRecords[2].home = Str("95")
    /\ GameRecords[2].away = Str("99")

\* The events of a schedule payload; none when the list is missing.
ScheduleEventsOf(schedule) ==
    IF Prop(schedule, "events").t = "array" THEN Prop(schedule, "events").a ELSE <<>>

\* The event is flagged as completed.
IsCompleted(e) == Opt(Opt(Prop(e, "status"), "type"), "completed") = Bool(TRUE)

\* The team with the given ID takes part in the event / is flagged as its winner.
TakesPart(e, tid) ==
    \E k \in 1..Len(FirstCompetitors(e)) :
        Opt(Prop(FirstCompetitors(e)[k], "team"), "id") = tid

OwnWin(e, tid) ==
    \E k \in 1..Len(FirstCompetitors(e)) :
        /\ Opt(Prop(FirstCompetitors(e)[k], "team"), "id") = tid
        /\ Prop(FirstCompetitors(e)[k], "winner") = Bool(TRUE)

\* The two sides of a matchup: the output's team, the ID its identifier
\* resolved to, and the schedule payload fetched for it.
MatchupSides ==
    LET rs == ResolveAll(impl, handler, input)
    IN  {[team |-> Prop(outcome.output, "homeTeam"), id |-> rs[1].val, schedule |-> payloads[3]],
         [team |-> Prop(outcome.output, "awayTeam"), id |-> rs[2].val, schedule |-> payloads[4]]}

\* C17: in the matchup output, the wins of a team are the completed events
\* of its schedule in which the team's own competitor is flagged as winner.
C17_WinsAreOwnWins ==
    (impl = "abbr" /\ handler = "matchup" /\ outcome.kind = "output")
        => \A side \in MatchupSides :
             LET events == ScheduleEventsOf(side.schedule)
             IN  (\A i \in 1..Len(events) :
                      FirstCompetitors(events[i]) # <<>> => TakesPart(events[i], side.id))
                   => Prop(Prop(side.team, "record"), "wins")
                        = Num(Cardinality({i \in 1..Len(events) :
                                IsCompleted(events[i]) /\ OwnWin(events[i], side.id)}))

\* C18: gamesPlayed is the number of completed events, wins lies between 0
\* and gamesPlayed and is at most the number of completed events with a
\* winner, losses is not negative, and wins + losses = gamesPlayed.
C18_RecordArithmetic ==
    (impl = "abbr" /\ handler = "matchup" /\ outcome.kind = "output")
        => \A side \in MatchupSides :
             LET events    == ScheduleEventsOf(side.schedule)
                 completed == {i \in 1..Len(events) : IsCompleted(events[i])}
                 decided   == {i \in completed :
                                 \E k \in 1..Len(FirstCompetitors(events[i])) :
                                    Prop(FirstCompetitors(events[i])[k], "winner") = Bool(TRUE)}
                 record    == Prop(side.team, "record")
                 wins      == Prop(record, "wins")
                 losses    == Prop(record, "losses")
                 played    == Prop(record, "gamesPlayed")
             IN  /\ played = Num(Cardinality(completed))
                 /\ wins.t = "number" /\ losses.t = "number"
                 /\ 0 <= wins.n /\ wins.n <= played.n
                 /\ wins.n <= Cardinality(decided)
                 /\ losses.n >= 0
                 /\ wins.n + losses.n = played.n

\* A home schedule of a completed game followed by an abandoned one on which
\* a winner is flagged: one game played, one win, no loss.
C18_Witness ==
    /\ impl = "abbr" /\ handler = "matchup" /\ outcome.kind = "output"
    /\ Prop(payloads[3], "events") = Arr(<<ScheduleWon, ScheduleAbandoned>>)
    /\ Prop(Prop(outcome.output, "homeTeam"), "record")
         = Obj([wins |-> Num(1), losses |-> Num(0), gamesPlayed |-> Num(1)])

(***************************************************************************)
(* Claims about the issuing of the upstream calls (checked under Spec).    *)
(***************************************************************************)
\* The number of upstream calls each entrypoint makes.
ExpectedCalls ==
    IF impl = "abbr"
    THEN CASE handler = "overview" -> 2 [] handler = "scores" -> 1
           [] handler = "team" -> 2     [] handler = "leaders" -> 1
           [] handler = "player" -> 1   [] handler = "matchup" -> 4
    ELSE CASE handler = "overview" -> 1 [] handler = "games" -> 1
           [] handler = "team" -> 2     [] handler = "player" -> 1
           [] handler = "compare" -> 4  [] handler = "report" -> 2

\* The calls of the request are all there from the moment the handler waits,
\* and a failed call never comes with an output.
CallsIssuedOnce ==
    /\ hpc \in {"awaiting", "returned"} => Len(calls) = ExpectedCalls
    /\ Len(calls) \in {0, ExpectedCalls}
    /\ outcome.kind = "output" => \A j \in DOMAIN calls : Fulfilled(j)

\* After the handler has issued its calls no call is added, and a call that
\* has got its answer is not fetched again: its answer stays and, once it
\* has failed, so does its failure.
NoFurtherCall ==
    calls # <<>>
        => /\ Len(calls') = Len(calls)
           /\ \A j \in DOMAIN calls :
                /\ calls'[j].endpoint = calls[j].endpoint
                /\ calls[j].response # Idle
                      => /\ calls'[j].response = calls[j].response
                         /\ calls'[j].st # "fetching"
                /\ Rejected(j) => calls'[j] = calls[j]

\* C15: each upstream call of a request is issued exactly once, all of them
\* by the handler before it waits; no call is retried or added after an
\* answer or a failure, and a failure never turns into an output.
C15_NoRetrySingleFanOut ==
    []CallsIssuedOnce /\ [][NoFurtherCall]_vars

\* A matchup that failed on the 500 of its second call while the three
\* others went on to succeed: four calls, each answered once.
C15_Witness ==
    /\ impl = "abbr" /\ handler = "matchup" /\ hpc = "threw"
    /\ Len(calls) = 4 /\ settled[1] = 2 /\ Len(settled) = 4
    /\ calls[2].response = Response(500)
    /\ Rejected(2) /\ Fulfilled(1) /\ Fulfilled(3) /\ Fulfilled(4)
    /\ outcome = Threw(HttpError(500, 2))

\* C16: the calls of a request are issued only once every identifier of its
\* input is resolved; with an identifier that does not resolve, the first
\* or the second, the handler fails with the unknown-team error of the
\* first such identifier and has issued no call.
C16_ResolutionPrecedesFetching ==
    LET rs == [j \in 1..TeamFields(handler) |-> resolveTeamId(impl, input.teams[j])]
        unresolvable == {j \in 1..Len(rs) : rs[j].kind = "throw"}
    IN  /\ calls # <<>>
              => /\ unresolvable = {}
                 /\ ids = rs
        /\ (unresolvable # {} /\ hpc # "ready")
              => /\ hpc = "threw"
                 /\ calls = <<>>
                 /\ \E j \in unresolvable :
                       /\ \A k \in unresolvable : j <= k
                       /\ outcome = Threw([type |-> "Error", message |-> "Unknown team",
                                           team |-> input.teams[j]])

\* A matchup whose second identifier alone does not resolve: it threw and
\* no call was issued.
C16_Witness ==
    /\ impl = "abbr" /\ handler = "matchup" /\ input.teams = <<LAL, XYZ>>
    /\ hpc = "threw" /\ calls = <<>>
    /\ Len(ids) = 1 /\ ids[1].kind = "return"
    /\ outcome.error.team = XYZ

(***************************************************************************)
(* Claims about repeated normalization (checked under SpecRepeat).         *)
(***************************************************************************)
\* The object without the given field.
Without(obj, k) == Obj([f \in DOMAIN obj.o \ {k} |-> obj.o[f]])

\* What a handler handed back, less the timestamps of the result envelope:
\* fetchedAt and, in a matchup, analysis.generatedAt.
WithoutTimestamps(out) ==
    IF out.kind # "output" THEN out
    ELSE LET o == Without(out.output, "fetchedAt")
         IN  IF "analysis" \in DOMAIN o.o
             THEN Obj([f \in DOMAIN o.o |->
                          IF f = "analysis" THEN Without(o.o[f], "generatedAt") ELSE o.o[f]])
             ELSE o

\* C13: two normalizations of the same input and payloads hand back the same
\* record, the timestamps of the envelope apart, whenever each of them runs.
C13_NormalizeTwiceSame ==
    previous # Idle => WithoutTimestamps(outcome) = WithoutTimestamps(previous)

(***************************************************************************)
(* Claims about concurrent requests (checked under SpecConcurrent).        *)
(***************************************************************************)
\* What the invocation q hands back when it is the only one: the
\* unknown-team error of its first unresolvable identifier, else the error
\* of its call that failed first, else the normalization of the payloads
\* its own calls received, by role.
AloneOutcome(q) ==
    LET rs == [j \in 1..TeamFields(q.handler) |-> resolveTeamId(impl, q.input.teams[j])]
        unresolvable == {j \in 1..Len(rs) : rs[j].kind = "throw"}
        failed == {n \in 1..Len(q.settled) : q.calls[q.settled[n]].st = "rejected"}
    IN  IF unresolvable # {}
        THEN Threw([type |-> "Error", message |-> "Unknown team",
                    team |-> q.input.teams[CHOOSE j \in unresolvable :
                                              \A k \in unresolvable : j <= k]])
        ELSE IF failed # {}
        THEN Threw(q.calls[q.settled[CHOOSE n \in failed : \A m \in failed : n <= m]]
                      .result.error)
        ELSE Normalize(impl, q.handler, q.input,
                       [j \in 1..Len(rs) |-> rs[j].val],
                       [j \in 1..Len(q.calls) |-> q.calls[j].result.payload],
                       q.clock)

\* Every finished request has the result it has alone, and the alias table
\* is the one the module was loaded with.
IsolatedResults ==
    /\ aliases = AliasTable(impl)
    /\ \A r \in DOMAIN requests :
          IF requests[r].hpc \in {"returned", "threw"}
          THEN requests[r].outcome = AloneOutcome(requests[r])
          ELSE requests[r].outcome = Pending

\* A step is a step of one request: it leaves the alias table and every
\* other request as they are, and the request's own input and resolved IDs
\* as the handler bound them.
OneRequestSteps ==
    /\ aliases' = aliases
    /\ \E r \in DOMAIN requests :
          /\ \A o \in DOMAIN requests \ {r} : requests'[o] = requests[o]
          /\ requests'[r].input = requests[r].input
          /\ requests[r].hpc # "ready" => requests'[r].ids = requests[r].ids

\* C14: however the requests interleave, each request ends with the result
\* it has when it runs alone against the same upstream answers; no step of
\* one request changes another, and none changes the alias table.
C14_RequestIsolation ==
    []IsolatedResults /\ [][OneRequestSteps]_vars

\* While the team request for LAL waits for its schedule, the team request
\* for bos, started meanwhile and answered another roster, has returned
\* with its own team ID.
C14_Witness ==
    /\ impl = "abbr"
    /\ requests[1].input.teams = <<LAL>> /\ requests[2].input.teams = <<Bos>>
    /\ requests[1].hpc = "awaiting"
    /\ requests[1].calls[1].st = "fulfilled" /\ requests[1].calls[2].st = "fetching"
    /\ requests[2].hpc = "returned"
    /\ requests[2].calls[1].result.payload # requests[1].calls[1].result.payload
    /\ Prop(Prop(requests[2].outcome.output, "team"), "id") = Text(<<"2">>)

=============================================================================
